---- MODULE Spec2Model ----
(***************************************************************************)
(* CCU Manager wave engine (CCUWaveEngine and the parts of CCUManagerApp   *)
(* that drive it): the wave cycle task, the pool of agents per endpoint,   *)
(* fallen-agent detection with bounded restore attempts, the monitor task  *)
(* and the session snapshot.                                               *)
(***************************************************************************)
EXTENDS Integers, Sequences, FiniteSets, TLC

VARIABLES
  config,            \* CCUWaveEngine.config (the fields the engine reads)
  is_running,        \* CCUWaveEngine.is_running
  stop_event,        \* CCUWaveEngine.stop_event (threading.Event)
  current_phase,     \* CCUWaveEngine.current_phase
  current_day,       \* CCUWaveEngine.current_day
  current_online,    \* CCUWaveEngine.current_online
  all_bots,          \* CCUWaveEngine.all_bots : dict url -> list of names
  bots_in_game,      \* CCUWaveEngine.bots_in_game : url -> list of names
  fallen_tracked,    \* CCUWaveEngine._fallen_tracked : url -> set of names
  restore_attempts,  \* CCUWaveEngine._restore_attempts : url -> name -> (count, ts)
  tasks,             \* the threads running run_wave_cycle, with their locals
  session,           \* the snapshot the last step wrote to SESSION_STATE_FILE, or NoSession
  now,               \* time.time(), in seconds
  out,               \* commands sent and log lines written by the last step
  restore_sent,      \* history: restore commands sent since the record was created
  exhausted_logged,  \* history: "exhausted" warnings since the record was created
  seen,              \* pool and online set each endpoint showed the last step, if it was a recorded detection
  passes             \* the detection passes in progress when their steps interleave, per caller

vars == <<config, is_running, stop_event, current_phase, current_day,
          current_online, all_bots, bots_in_game, fallen_tracked,
          restore_attempts, tasks, session, now, out, restore_sent,
          exhausted_logged, seen, passes>>

-----------------------------------------------------------------------------
(* Bounds of the model *)

MaxTasks == 2      \* cycle threads alive at once
MaxDay == 3        \* current_day stops growing here
TickSecs == 60     \* seconds one Tick adds to the clock
MaxClock == 180    \* the clock stops here
MaxSchedDay == 9   \* days the schedule is computed for

(* Program constants *)

restore_max_attempts == 2
restore_cooldown == 60

-----------------------------------------------------------------------------
(* The endpoints and what their gateways list *)

Urls == {"u1", "u2"}
InstanceOrder == <<"u1", "u2">>
Bots == {"a", "b"}
BotOrder == <<"a", "b">>
Roster == [u \in Urls |-> IF u = "u1" THEN <<"a">> ELSE <<"b">>]

ToSet(s) == {s[i] : i \in 1..Len(s)}
Get(d, k, default) == IF k \in DOMAIN d THEN d[k] ELSE default
Put(d, k, v) == [x \in DOMAIN d \cup {k} |-> IF x = k THEN v ELSE d[x]]
EmptyDict == [x \in {} |-> 0]
Pop(d, k) == [x \in DOMAIN d \ {k} |-> d[x]]
Max2(x, y) == IF x >= y THEN x ELSE y
\* variant: no clamp
Unclamped(x, y) == y
Min2(x, y) == IF x <= y THEN x ELSE y

RECURSIVE SeqSum(_)
SeqSum(s) == IF s = <<>> THEN 0 ELSE Head(s) + SeqSum(Tail(s))

RECURSIVE RemoveFirst(_, _)
RemoveFirst(s, x) ==
  IF s = <<>> THEN <<>>
  ELSE IF Head(s) = x THEN Tail(s) ELSE <<Head(s)>> \o RemoveFirst(Tail(s), x)

-----------------------------------------------------------------------------
(* Configurations *)

CfgDecay ==
  [active |-> {"u1", "u2"}, game_id |-> 730, peak |-> 2, bottom |-> 1,
   base_days |-> 1, gradual_enabled |-> TRUE,
   additional_days |-> <<[peak |-> 1, bottom |-> 0]>>,
   rand_enabled |-> FALSE, rand_type |-> "percentage", rand_min |-> -15, rand_max |-> 15,
   delay_enabled |-> TRUE, delay_after_peak |-> 1, delay_after_bottom |-> 1]

CfgJitter ==
  [active |-> {"u1"}, game_id |-> 730, peak |-> 2, bottom |-> 0,
   base_days |-> 7, gradual_enabled |-> FALSE,
   additional_days |-> <<>>,
   rand_enabled |-> TRUE, rand_type |-> "absolute", rand_min |-> -1, rand_max |-> 1,
   delay_enabled |-> FALSE, delay_after_peak |-> 0, delay_after_bottom |-> 0]

\* one endpoint, one agent wanted, nothing else enabled
CfgSolo ==
  [active |-> {"u1"}, game_id |-> 730, peak |-> 1, bottom |-> 0,
   base_days |-> 7, gradual_enabled |-> FALSE,
   additional_days |-> <<>>,
   rand_enabled |-> FALSE, rand_type |-> "percentage", rand_min |-> -15, rand_max |-> 15,
   delay_enabled |-> FALSE, delay_after_peak |-> 0, delay_after_bottom |-> 0]

ConfigSet == {CfgDecay, CfgJitter, CfgSolo}

get_active_instances(cfg) == SelectSeq(InstanceOrder, LAMBDA u : u \in cfg.active)

-----------------------------------------------------------------------------
(* ScheduleCalculator *)

\* variant: the enabled flag is not read
DecayAppliesAlways(cfg, day) == day > cfg.base_days

DecayApplies(cfg, day) == cfg.gradual_enabled /\ day > cfg.base_days

\* variant: the index counted from one
day_index_from_one(cfg, day) == day - cfg.base_days

day_index(cfg, day) == day - cfg.base_days - 1

InAdditionalDays(cfg, day) == day_index(cfg, day) < Len(cfg.additional_days)

\* variant: past the list the base targets come back
peak_bottom_no_end(cfg, day) ==
  IF ~DecayApplies(cfg, day) \/ ~InAdditionalDays(cfg, day) THEN <<cfg.peak, cfg.bottom>>
  ELSE LET day_config == cfg.additional_days[day_index(cfg, day) + 1]
       IN  <<Get(day_config, "peak", cfg.peak), Get(day_config, "bottom", cfg.bottom)>>

get_current_peak_bottom(cfg, day) ==
  IF ~DecayApplies(cfg, day) THEN <<cfg.peak, cfg.bottom>>
  ELSE IF InAdditionalDays(cfg, day)
       THEN LET day_config == cfg.additional_days[day_index(cfg, day) + 1]
            IN  <<Get(day_config, "peak", cfg.peak), Get(day_config, "bottom", cfg.bottom)>>
       ELSE <<0, 0>>

\* variant: one zero target ends the cycle
EitherTargetZero(pb) == pb[1] = 0 \/ pb[2] = 0

CycleComplete(pb) == pb[1] = 0 /\ pb[2] = 0

\* int(x / 100) for an integer x: truncation toward zero
Abs(x) == IF x >= 0 THEN x ELSE -x

RECURSIVE GCD(_, _)
GCD(a, b) == IF b = 0 THEN a ELSE GCD(b, a % b)

\* float('inf')
Infinite == [inf |-> TRUE, num |-> 0, den |-> 1]

\* the quotient n / d of two positive integers, in lowest terms
Quotient(n, d) == [inf |-> FALSE, num |-> n \div GCD(n, d), den |-> d \div GCD(n, d)]

\* variant: a zero budget is divided like a positive one
step_interval_zero_budget(current, target, seconds_available) ==
  LET diff == Abs(target - current) IN
  IF diff = 0 \/ seconds_available < 0 THEN Infinite
  ELSE Quotient(seconds_available, diff)

calculate_step_interval(current, target, seconds_available) ==
  LET diff == Abs(target - current) IN
  IF diff = 0 \/ seconds_available <= 0 THEN Infinite
  ELSE Quotient(seconds_available, diff)

\* variant: the enabled flag is not consulted
randomization_always(cfg, value) ==
  IF cfg.rand_type = "percentage"
  THEN LET lo == (value * (100 + cfg.rand_min)) \div 100
           hi == (value * (100 + cfg.rand_max)) \div 100
       IN  lo..hi
  ELSE {value + offset : offset \in cfg.rand_min..cfg.rand_max}

TruncDiv100(x) == IF x >= 0 THEN x \div 100 ELSE -((-x) \div 100)

\* the values apply_randomization(value) can return
apply_randomization(cfg, value) ==
  IF ~cfg.rand_enabled THEN {value}
  ELSE IF cfg.rand_type = "percentage"
       THEN LET lo == TruncDiv100(value * (100 + cfg.rand_min))
                hi == TruncDiv100(value * (100 + cfg.rand_max))
            IN  Min2(lo, hi)..Max2(lo, hi)
       ELSE {value + offset : offset \in cfg.rand_min..cfg.rand_max}

-----------------------------------------------------------------------------
(* BotPoolManager *)

get_total_bots_count(ab) == SeqSum([i \in 1..Len(InstanceOrder) |->
                                     Len(Get(ab, InstanceOrder[i], <<>>))])

Orderings(S) == {s \in [1..Cardinality(S) -> S] : ToSet(s) = S}

\* variant: the agents already in the game are not taken out
AvailableWithActive(cfg, ab, big) ==
  {f \in [cfg.active -> UNION {Orderings(S) : S \in SUBSET Bots}] :
     \A u \in cfg.active : ToSet(f[u]) = ToSet(Get(ab, u, <<>>))}

\* list(all_bots - in_game) for every instance: a set has no order of its own
AvailableChoices(cfg, ab, big) ==
  {f \in [cfg.active -> UNION {Orderings(S) : S \in SUBSET Bots}] :
     \A u \in cfg.active : ToSet(f[u]) = ToSet(Get(ab, u, <<>>)) \ ToSet(big[u])}

RECURSIVE add_rounds(_, _, _, _, _, _)
add_rounds(available, urls, i, count, result, added_this_round) ==
  IF i > Len(urls)
  THEN IF added_this_round /\ Len(result) < count
       THEN add_rounds(available, urls, 1, count, result, FALSE)
       ELSE result
  ELSE LET url == urls[i] IN
       IF available[url] # <<>> /\ Len(result) < count
       THEN add_rounds([available EXCEPT ![url] = Tail(@)], urls, i + 1, count,
                       Append(result, <<url, Head(available[url])>>), TRUE)
       ELSE add_rounds(available, urls, i + 1, count, result, added_this_round)

\* the lists get_bots_to_add(count) can return
get_bots_to_add(cfg, ab, big, count) ==
  IF count <= 0 THEN {<<>>}
  ELSE {add_rounds(av, get_active_instances(cfg), 1, count, <<>>, FALSE) :
          av \in AvailableChoices(cfg, ab, big)}

RECURSIVE remove_rounds(_, _, _, _, _, _)
remove_rounds(big, urls, i, count, result, removed_this_round) ==
  IF i > Len(urls)
  THEN IF removed_this_round /\ Len(result) < count
       THEN remove_rounds(big, urls, 1, count, result, FALSE)
       ELSE result
  ELSE LET url == urls[i] IN
       IF big[url] # <<>> /\ Len(result) < count
       THEN remove_rounds(big, urls, i + 1, count,
                          Append(result, <<url, big[url][Len(big[url])]>>), TRUE)
       ELSE remove_rounds(big, urls, i + 1, count, result, removed_this_round)

get_bots_to_remove(cfg, big, count) ==
  IF count <= 0 THEN <<>>
  ELSE remove_rounds(big, get_active_instances(cfg), 1, count, <<>>, FALSE)

-----------------------------------------------------------------------------
(* FallenBotRecovery: check_and_restore_fallen_bots                        *)
(*                                                                         *)
(* A detection pass works on a record d of the maps it reads and writes:   *)
(* ft (_fallen_tracked), ra (_restore_attempts), out, and the history      *)
(* counters rs (restore_sent) and el (exhausted_logged).  The gateway's    *)
(* answers are the record gw: q_ok (endpoints whose roster query           *)
(* succeeds), online (agents the roster shows online), playing (agents     *)
(* _is_bot_playing reports True for) and play_ok (agents whose play        *)
(* command succeeds).                                                      *)

Event(t, u, b, n) == [t |-> t, u |-> u, b |-> b, n |-> n]

\* variant: an endpoint that cannot be queried counts as fully online
online_assumed(gw, u) == IF u \in gw.q_ok THEN gw.online ELSE Bots

currently_online(gw, u) == IF u \in gw.q_ok THEN gw.online ELSE {}

FallenOf(should_be, online) == should_be \ online

\* variant: the tracked agents are not left out
NewFallenUntracked(should_be, online, fallen_set) == FallenOf(should_be, online)

NewFallen(should_be, online, fallen_set) == FallenOf(should_be, online) \ fallen_set

Returned(should_be, online) == online \cap should_be

\* variant: one more attempt before giving up
AttemptsExhaustedLate(count) == count > restore_max_attempts

AttemptsExhausted(count) == count >= restore_max_attempts

\* variant: the threshold test of line 699 dropped
ExhaustedEveryTime(count) == count >= restore_max_attempts

ExhaustedFirstTime(count) == count = restore_max_attempts

\* variant: the time of the last attempt is not looked at
CooldownIgnored(t, last_ts) == FALSE

InCooldown(t, last_ts) == t - last_ts < restore_cooldown

\* lines 660-671: one alert for the new fallen agents, each tracked at (0, 0.0)
TrackNewFallen(d, u, new_fallen) ==
  IF new_fallen = {} THEN d
  ELSE [d EXCEPT
          !.out = Append(@, Event("alert", u, "", Cardinality(new_fallen))),
          !.ft[u] = @ \cup new_fallen,
          !.ra[u] = [b \in DOMAIN @ \cup new_fallen |->
                       IF b \in new_fallen THEN <<0, 0>> ELSE @[b]],
          !.rs[u] = [b \in Bots |-> IF b \in new_fallen THEN 0 ELSE @[b]],
          !.el[u] = [b \in Bots |-> IF b \in new_fallen THEN 0 ELSE @[b]]]

\* variant: the attempt record outlives the fallen record
ClearFallenOnly(d, u, bot) ==
  [d EXCEPT !.ft[u] = @ \ {bot}, !.rs[u][bot] = 0, !.el[u][bot] = 0]

\* lines 685-690 and 716-718: the record of bot is cleared
ClearRecord(d, u, bot) ==
  [d EXCEPT !.ft[u] = @ \ {bot}, !.ra[u] = Pop(@, bot),
            !.rs[u][bot] = 0, !.el[u][bot] = 0]

\* variant: the count grows on every call
GiveUpCounting(d, u, bot, count, last_ts) ==
  IF count = restore_max_attempts
  THEN [d EXCEPT !.out = Append(@, Event("exhausted", u, bot, count)),
                 !.ra[u] = Put(@, bot, <<count + 1, last_ts>>),
                 !.el[u][bot] = @ + 1]
  ELSE [d EXCEPT !.ra[u] = Put(@, bot, <<count + 1, last_ts>>)]

\* lines 695-702: attempts used up; the warning is logged at the threshold only
\* variant: giving up forgets the agent
GiveUpForgetting(d, u, bot, count, last_ts) == ClearRecord(d, u, bot)

GiveUp(d, u, bot, count, last_ts) ==
  IF ExhaustedFirstTime(count)
  THEN [d EXCEPT !.out = Append(@, Event("exhausted", u, bot, count)),
                 !.ra[u] = Put(@, bot, <<count + 1, last_ts>>),
                 !.el[u][bot] = @ + 1]
  ELSE d

\* lines 708-722: one play command; success clears, failure counts
AttemptRestore(d, u, bot, count, t, success) ==
  LET sent == [d EXCEPT !.out = Append(@, Event("play", u, bot, count)),
                        !.rs[u][bot] = @ + 1]
  IN  IF success
      THEN [ClearRecord(sent, u, bot) EXCEPT
              !.out = Append(@, Event("restored", u, bot, count))]
      ELSE [sent EXCEPT
              !.ra[u] = Put(@, bot, <<count + 1, t>>),
              !.out = Append(@, Event("retry_failed", u, bot, count + 1))]

\* lines 693-722: what is done for a tracked agent seen online and not playing
ActOnRecord(d, u, bot, count, last_ts, gw, t) ==
  IF AttemptsExhausted(count) THEN GiveUp(d, u, bot, count, last_ts)
  ELSE IF InCooldown(t, last_ts) THEN d
  ELSE AttemptRestore(d, u, bot, count, t, bot \in gw.play_ok)

\* line 693: attempts_map.get(bot, (0, 0.0))
ReadRecord(d, u, bot) == Get(d.ra[u], bot, <<0, 0>>)

\* lines 675-722: the body of the loop over sorted(returned)
ProcessReturned(d, u, bot, gw, t) ==
  IF bot \notin d.ft[u] THEN d
  ELSE IF bot \in gw.playing
  THEN [ClearRecord(d, u, bot) EXCEPT
          !.out = Append(@, Event("already_playing", u, bot, 0))]
  ELSE LET rec == ReadRecord(d, u, bot)
       IN  ActOnRecord(d, u, bot, rec[1], rec[2], gw, t)

RECURSIVE ReturnedLoop(_, _, _, _, _, _)
ReturnedLoop(d, u, returned, i, gw, t) ==
  IF i > Len(BotOrder) THEN d
  ELSE IF BotOrder[i] \in returned
       THEN ReturnedLoop(ProcessReturned(d, u, BotOrder[i], gw, t), u, returned, i + 1, gw, t)
       ELSE ReturnedLoop(d, u, returned, i + 1, gw, t)

\* lines 644-722: the body of the loop over the active instances
DetectInstance(d, u, big, gw, t) ==
  LET should_be == ToSet(big[u])
      online == currently_online(gw, u)
      tracked == TrackNewFallen(d, u, NewFallen(should_be, online, d.ft[u]))
  IN  ReturnedLoop(tracked, u, Returned(should_be, online), 1, gw, t)

RECURSIVE InstanceLoop(_, _, _, _, _, _)
InstanceLoop(d, urls, i, big, gw, t) ==
  IF i > Len(urls) THEN d
  ELSE InstanceLoop(DetectInstance(d, urls[i], big, gw, t), urls, i + 1, big, gw, t)

check_and_restore_fallen_bots(d, cfg, big, gw, t) ==
  InstanceLoop(d, get_active_instances(cfg), 1, big, gw, t)

-----------------------------------------------------------------------------
(* Gateway commands *)

\* send_reset_command: results[i] is the outcome of the i-th "reset" sent.
\* Returns whether the agent is reported deactivated, and the commands sent.
\* variant: the fallback restart counts as a success
reset_fallback_succeeds(u, bot, results) ==
  [ok |-> TRUE,
   cmds |-> IF results[1] THEN <<Event("reset", u, bot, 1)>>
            ELSE IF results[2]
            THEN <<Event("reset", u, bot, 1), Event("reset", u, bot, 2)>>
            ELSE IF results[3]
            THEN <<Event("reset", u, bot, 1), Event("reset", u, bot, 2),
                   Event("reset", u, bot, 3)>>
            ELSE <<Event("reset", u, bot, 1), Event("reset", u, bot, 2),
                   Event("reset", u, bot, 3), Event("stop", u, bot, 0),
                   Event("start", u, bot, 0)>>]

send_reset_command(u, bot, results) ==
  IF results[1] THEN [ok |-> TRUE, cmds |-> <<Event("reset", u, bot, 1)>>]
  ELSE IF results[2]
  THEN [ok |-> TRUE, cmds |-> <<Event("reset", u, bot, 1), Event("reset", u, bot, 2)>>]
  ELSE IF results[3]
  THEN [ok |-> TRUE, cmds |-> <<Event("reset", u, bot, 1), Event("reset", u, bot, 2),
                                Event("reset", u, bot, 3)>>]
  ELSE [ok |-> FALSE, cmds |-> <<Event("reset", u, bot, 1), Event("reset", u, bot, 2),
                                 Event("reset", u, bot, 3), Event("stop", u, bot, 0),
                                 Event("start", u, bot, 0)>>]

ResetResults == {<<TRUE, TRUE, TRUE>>, <<FALSE, TRUE, TRUE>>,
                 <<FALSE, FALSE, TRUE>>, <<FALSE, FALSE, FALSE>>}

\* _time_until: seconds to the next HH:MM, always in 1..86400
TimeUntilValues == {1, 86400}

-----------------------------------------------------------------------------
(* Session snapshot *)

NoSession == [exists |-> FALSE]

\* list(v) for a set v: the names in some order; set(list) gives the set back
SetToList(S) == CHOOSE s \in Orderings(S) : TRUE

save_session_state ==
  [exists |-> TRUE,
   is_running |-> is_running',
   current_phase |-> current_phase',
   current_day |-> current_day',
   current_online |-> current_online',
   bots_in_game |-> bots_in_game',
   fallen_tracked |-> [u \in Urls |-> SetToList(fallen_tracked'[u])],
   restore_attempts |-> restore_attempts']

LoadFallen(st) == [u \in Urls |-> ToSet(st.fallen_tracked[u])]

LoadAttempts(st) == st.restore_attempts

-----------------------------------------------------------------------------
(* The cycle tasks *)

Slots == 1..MaxTasks

NoTask == [pc |-> "none", peak |-> 0, bottom |-> 0, batch |-> <<>>,
           delay_enabled |-> FALSE, delay_after_peak |-> 0,
           delay_after_bottom |-> 0, remaining |-> 0,
           seconds |-> 0, interval |-> Infinite, target |-> 0,
           tries |-> 0, wait |-> 0]

NoHistory == [u \in Urls |-> [b \in Bots |-> 0]]

NeverSeen == [u \in Urls |-> [called |-> FALSE, ok |-> FALSE, pool |-> {}, online |-> {},
                               playing |-> {}]]

Stopped == ~is_running \/ stop_event

Callers == {"monitor", "cycle"}

NoAnswers == [q_ok |-> {}, online |-> {}, playing |-> {}, play_ok |-> {}]

IdlePass == [pc |-> "idle", urls |-> <<>>, u |-> "", gw |-> NoAnswers, new_fallen |-> {},
             returned |-> <<>>, bot |-> "", count |-> 0, last_ts |-> 0]

\* the state after CCUWaveEngine.__init__ with no session file, for the given
\* configuration, day and thread slots
InitState(cfg, day, online, tk) ==
  /\ config = cfg
  /\ is_running = FALSE
  /\ stop_event = FALSE
  /\ current_phase = "idle"
  /\ current_day = day
  /\ current_online = online
  /\ all_bots = EmptyDict
  /\ bots_in_game = [u \in Urls |-> <<>>]
  /\ fallen_tracked = [u \in Urls |-> {}]
  /\ restore_attempts = [u \in Urls |-> EmptyDict]
  /\ tasks = tk
  /\ session = NoSession
  /\ now = restore_cooldown
  /\ out = <<>>
  /\ restore_sent = NoHistory
  /\ exhausted_logged = NoHistory
  /\ seen = NeverSeen
  /\ passes = [c \in Callers |-> IdlePass]

InitWith(cfg, day, slots) == InitState(cfg, day, 0, [t \in slots |-> NoTask])

Init == InitWith(CfgDecay, 1, {1})

\* what the gateway can answer to one detection pass (only the answers the
\* pass reads are enumerated: the agents of the pool, the state of the
\* tracked agents seen online, the outcome of a play sent to them)
GatewayAnswers ==
  LET tracked == UNION {fallen_tracked[u] : u \in config.active}
      PoolOf(q) == UNION {ToSet(bots_in_game[u]) : u \in q}
  IN  UNION {UNION {UNION {
        {[q_ok |-> q, online |-> on, playing |-> pl, play_ok |-> ok] :
           ok \in SUBSET ((on \cap tracked) \ pl)} :
         pl \in SUBSET (on \cap tracked)} :
         on \in SUBSET PoolOf(q)} :
         q \in SUBSET config.active}

Seen(gw) ==
  [u \in Urls |->
     IF u \in config.active
     THEN [called |-> TRUE, ok |-> u \in gw.q_ok, pool |-> ToSet(bots_in_game[u]),
           online |-> currently_online(gw, u) \cap ToSet(bots_in_game[u]),
           playing |-> gw.playing \cap currently_online(gw, u) \cap ToSet(bots_in_game[u])]
     ELSE NeverSeen[u]]

\* the maps a detection pass works on
Shared ==
  [ft |-> fallen_tracked, ra |-> restore_attempts, out |-> <<>>,
   rs |-> restore_sent, el |-> exhausted_logged]

Commit(d) ==
  /\ fallen_tracked' = d.ft
  /\ restore_attempts' = d.ra
  /\ out' = d.out
  /\ restore_sent' = d.rs
  /\ exhausted_logged' = d.el

\* a call of check_and_restore_fallen_bots on the engine's maps, as one step
Detect(gw, watched) ==
  /\ Commit(check_and_restore_fallen_bots(Shared, config, bots_in_game, gw, now))
  /\ seen' = IF watched THEN Seen(gw) ELSE NeverSeen

NoSave == session' = NoSession

NoDetect ==
  /\ seen' = NeverSeen
  /\ UNCHANGED <<fallen_tracked, restore_attempts, restore_sent, exhausted_logged>>

SetTask(t, r) == tasks' = [tasks EXCEPT ![t] = r]

\* lines 846-848: the thread leaves run_wave_cycle
Exit(t) ==
  /\ is_running' = FALSE
  /\ current_phase' = "idle"
  /\ SetTask(t, NoTask)

\* lines 736-753
CycleInit(t) ==
  /\ tasks[t].pc = "init"
  /\ \E listed \in SUBSET config.active :
       all_bots' = [u \in config.active |-> IF u \in listed THEN Roster[u] ELSE <<>>]
  /\ bots_in_game' = [u \in Urls |-> IF u \in DOMAIN all_bots' THEN <<>> ELSE bots_in_game[u]]
  /\ current_online' = 0
  /\ SetTask(t, [tasks[t] EXCEPT !.pc = "top",
                   !.delay_enabled = config.delay_enabled,
                   !.delay_after_peak = config.delay_after_peak,
                   !.delay_after_bottom = config.delay_after_bottom])
  /\ out' = <<>>
  /\ UNCHANGED <<passes, config, is_running, stop_event, current_phase, current_day, now>>
  /\ NoSave
  /\ NoDetect

\* variant: a hold of no length is entered too
HoldWhenEnabled(enabled, duration) == enabled

\* lines 793, 835: if delay_enabled and delay_after_... > 0
HoldDue(enabled, duration) == enabled /\ duration > 0

\* lines 804-811: enter the descending phase
EnterDescending(t) ==
  /\ current_phase' = "descending"
  /\ \E seconds_to_bottom \in TimeUntilValues :
       IF current_online - tasks[t].bottom > 0 /\ seconds_to_bottom > 0
       THEN SetTask(t, [tasks[t] EXCEPT !.pc = "desc"])
       ELSE SetTask(t, [tasks[t] EXCEPT !.pc = "desc_end"])
  /\ UNCHANGED is_running

\* lines 754-768: the head of the day loop
LoopTop(t) ==
  /\ tasks[t].pc = "top"
  /\ IF Stopped
     THEN Exit(t) /\ out' = <<>>
     ELSE LET pb == get_current_peak_bottom(config, current_day) IN
          IF CycleComplete(pb)
          THEN Exit(t) /\ out' = <<Event("decay_complete", "", "", current_day)>>
          ELSE /\ current_phase' = "ascending"
               /\ \E seconds_to_peak \in TimeUntilValues :
                    IF pb[1] - current_online > 0 /\ seconds_to_peak > 0
                    THEN SetTask(t, [tasks[t] EXCEPT !.pc = "asc", !.peak = pb[1], !.bottom = pb[2]])
                    ELSE SetTask(t, [tasks[t] EXCEPT !.pc = "asc_end", !.peak = pb[1], !.bottom = pb[2]])
               /\ out' = <<>>
               /\ UNCHANGED is_running
  /\ UNCHANGED <<passes, config, stop_event, current_day, current_online, all_bots,
                 bots_in_game, now>>
  /\ NoSave
  /\ NoDetect

\* lines 769-773: one micro-step of the ascent starts
AscHead(t) ==
  /\ tasks[t].pc = "asc"
  /\ IF current_online < tasks[t].peak /\ ~Stopped
     THEN \E raw \in apply_randomization(config, current_online + 1) :
            LET target == Min2(tasks[t].peak, raw)
                bots_needed == target - current_online
            IN  IF bots_needed > 0
                THEN \E bots_to_play \in get_bots_to_add(config, all_bots, bots_in_game, bots_needed) :
                       SetTask(t, [tasks[t] EXCEPT !.batch = bots_to_play,
                                     !.pc = IF bots_to_play = <<>> THEN "asc_det" ELSE "asc_cmd"])
                ELSE SetTask(t, [tasks[t] EXCEPT !.pc = "asc_det"])
     ELSE SetTask(t, [tasks[t] EXCEPT !.pc = "asc_end"])
  /\ out' = <<>>
  /\ UNCHANGED <<passes, config, is_running, stop_event, current_phase, current_day,
                 current_online, all_bots, bots_in_game, now>>
  /\ NoSave
  /\ NoDetect

\* lines 774-783: one play command of the batch
AscCmd(t) ==
  /\ tasks[t].pc = "asc_cmd"
  /\ LET url == Head(tasks[t].batch)[1]
         bot == Head(tasks[t].batch)[2]
         rest == Tail(tasks[t].batch)
     IN  IF stop_event
         THEN /\ SetTask(t, [tasks[t] EXCEPT !.batch = <<>>, !.pc = "asc_det"])
              /\ out' = <<>>
              /\ UNCHANGED <<bots_in_game, current_online>>
         ELSE /\ \E success \in BOOLEAN :
                   IF success
                   THEN /\ bots_in_game' = [bots_in_game EXCEPT ![url] = Append(@, bot)]
                        /\ current_online' = current_online + 1
                        /\ out' = <<Event("play", url, bot, 0),
                                    Event("entered", url, bot, current_online + 1)>>
                   ELSE /\ UNCHANGED <<bots_in_game, current_online>>
                        /\ out' = <<Event("play", url, bot, 0)>>
              /\ SetTask(t, [tasks[t] EXCEPT !.batch = rest,
                               !.pc = IF rest = <<>> THEN "asc_det" ELSE "asc_cmd"])
  /\ UNCHANGED <<passes, config, is_running, stop_event, current_phase, current_day,
                 all_bots, now>>
  /\ NoSave
  /\ NoDetect

\* lines 784-789: detection, then the paced wait
AscDetect(t, watched) ==
  /\ tasks[t].pc = "asc_det"
  /\ \E gw \in GatewayAnswers : Detect(gw, watched)
  /\ SetTask(t, [tasks[t] EXCEPT !.pc = "asc"])
  /\ UNCHANGED <<passes, config, is_running, stop_event, current_phase, current_day,
                 current_online, all_bots, bots_in_game, now>>
  /\ NoSave

\* lines 790-811: after the ascent
AscEnd(t) ==
  /\ tasks[t].pc = "asc_end"
  /\ IF Stopped
     THEN Exit(t) /\ out' = <<>>
     ELSE /\ out' = <<Event("peak_reached", "", "", current_online)>>
          /\ IF HoldDue(tasks[t].delay_enabled, tasks[t].delay_after_peak)
             THEN /\ current_phase' = "delay_after_peak"
                  /\ SetTask(t, [tasks[t] EXCEPT !.pc = "hold_peak",
                                   !.remaining = tasks[t].delay_after_peak])
                  /\ UNCHANGED is_running
             ELSE EnterDescending(t)
  /\ UNCHANGED <<passes, config, stop_event, current_day, current_online, all_bots,
                 bots_in_game, now>>
  /\ NoSave
  /\ NoDetect

\* lines 797-801: one second of the hold after the peak
HoldPeak(t, watched) ==
  /\ tasks[t].pc = "hold_peak"
  /\ tasks[t].remaining > 0 /\ ~stop_event
  /\ \E gw \in GatewayAnswers : Detect(gw, watched)
  /\ SetTask(t, [tasks[t] EXCEPT !.remaining = @ - 1])
  /\ UNCHANGED <<passes, config, is_running, stop_event, current_phase, current_day,
                 current_online, all_bots, bots_in_game, now>>
  /\ NoSave

\* lines 797-811: the hold ends
HoldPeakEnd(t) ==
  /\ tasks[t].pc = "hold_peak"
  /\ tasks[t].remaining = 0 \/ stop_event
  /\ IF Stopped THEN Exit(t) ELSE EnterDescending(t)
  /\ out' = <<>>
  /\ UNCHANGED <<passes, config, stop_event, current_day, current_online, all_bots,
                 bots_in_game, now>>
  /\ NoSave
  /\ NoDetect

\* lines 812-816: one micro-step of the descent starts
DescHead(t) ==
  /\ tasks[t].pc = "desc"
  /\ IF current_online > tasks[t].bottom /\ ~Stopped
     THEN \E raw \in apply_randomization(config, current_online - 1) :
            LET target == Max2(tasks[t].bottom, raw)
                bots_needed == current_online - target
                bots_to_reset == get_bots_to_remove(config, bots_in_game, bots_needed)
            IN  SetTask(t, [tasks[t] EXCEPT !.batch = bots_to_reset,
                              !.pc = IF bots_to_reset = <<>> THEN "desc_det" ELSE "desc_cmd"])
     ELSE SetTask(t, [tasks[t] EXCEPT !.pc = "desc_end"])
  /\ out' = <<>>
  /\ UNCHANGED <<passes, config, is_running, stop_event, current_phase, current_day,
                 current_online, all_bots, bots_in_game, now>>
  /\ NoSave
  /\ NoDetect

\* lines 821-823: a reset succeeded
CommitDeactivate(big, url, bot) ==
  IF bot \in ToSet(big[url]) THEN [big EXCEPT ![url] = RemoveFirst(@, bot)] ELSE big

\* lines 817-825: one reset command of the batch
DescCmd(t) ==
  /\ tasks[t].pc = "desc_cmd"
  /\ LET url == Head(tasks[t].batch)[1]
         bot == Head(tasks[t].batch)[2]
         rest == Tail(tasks[t].batch)
     IN  IF stop_event
         THEN /\ SetTask(t, [tasks[t] EXCEPT !.batch = <<>>, !.pc = "desc_det"])
              /\ out' = <<>>
              /\ UNCHANGED <<bots_in_game, current_online>>
         ELSE /\ \E results \in ResetResults :
                   LET r == send_reset_command(url, bot, results) IN
                   /\ IF r.ok
                      THEN /\ bots_in_game' = CommitDeactivate(bots_in_game, url, bot)
                           /\ current_online' = Max2(0, current_online - 1)
                           /\ out' = Append(r.cmds, Event("left", url, bot,
                                                          Max2(0, current_online - 1)))
                      ELSE /\ UNCHANGED <<bots_in_game, current_online>>
                           /\ out' = r.cmds
              /\ SetTask(t, [tasks[t] EXCEPT !.batch = rest,
                               !.pc = IF rest = <<>> THEN "desc_det" ELSE "desc_cmd"])
  /\ UNCHANGED <<passes, config, is_running, stop_event, current_phase, current_day,
                 all_bots, now>>
  /\ NoSave
  /\ NoDetect

\* lines 826-831: detection, then the paced wait
DescDetect(t, watched) ==
  /\ tasks[t].pc = "desc_det"
  /\ \E gw \in GatewayAnswers : Detect(gw, watched)
  /\ SetTask(t, [tasks[t] EXCEPT !.pc = "desc"])
  /\ UNCHANGED <<passes, config, is_running, stop_event, current_phase, current_day,
                 current_online, all_bots, bots_in_game, now>>
  /\ NoSave

\* variant: a day is skipped
NextDaySkipping(t) ==
  /\ current_day' = current_day + 2
  /\ SetTask(t, [tasks[t] EXCEPT !.pc = "top"])

\* lines 844-845
NextDay(t) ==
  /\ current_day' = current_day + 1
  /\ SetTask(t, [tasks[t] EXCEPT !.pc = "top"])

\* lines 832-845: after the descent
DescEnd(t) ==
  /\ tasks[t].pc = "desc_end"
  /\ IF Stopped
     THEN Exit(t) /\ out' = <<>> /\ UNCHANGED current_day
     ELSE /\ out' = <<Event("bottom_reached", "", "", current_online)>>
          /\ UNCHANGED is_running
          /\ IF HoldDue(tasks[t].delay_enabled, tasks[t].delay_after_bottom)
             THEN /\ current_phase' = "delay_after_bottom"
                  /\ SetTask(t, [tasks[t] EXCEPT !.pc = "hold_bottom",
                                   !.remaining = tasks[t].delay_after_bottom])
                  /\ UNCHANGED current_day
             ELSE /\ current_day < MaxDay
                  /\ NextDay(t)
                  /\ UNCHANGED current_phase
  /\ UNCHANGED <<passes, config, stop_event, current_online, all_bots, bots_in_game,
                 now>>
  /\ NoSave
  /\ NoDetect

\* lines 839-843: one second of the hold after the bottom
HoldBottom(t, watched) ==
  /\ tasks[t].pc = "hold_bottom"
  /\ tasks[t].remaining > 0 /\ ~stop_event
  /\ \E gw \in GatewayAnswers : Detect(gw, watched)
  /\ SetTask(t, [tasks[t] EXCEPT !.remaining = @ - 1])
  /\ UNCHANGED <<passes, config, is_running, stop_event, current_phase, current_day,
                 current_online, all_bots, bots_in_game, now>>
  /\ NoSave

\* lines 839-845: the hold ends and the day is counted
HoldBottomEnd(t) ==
  /\ tasks[t].pc = "hold_bottom"
  /\ tasks[t].remaining = 0 \/ stop_event
  /\ current_day < MaxDay
  /\ NextDay(t)
  /\ out' = <<>>
  /\ UNCHANGED <<passes, config, is_running, stop_event, current_phase, current_online,
                 all_bots, bots_in_game, now>>
  /\ NoSave
  /\ NoDetect

-----------------------------------------------------------------------------
(* CCUManagerApp and the engine's entry points *)

FreeSlots == {t \in DOMAIN tasks : tasks[t].pc = "none"}

\* CCUWaveEngine.start, lines 850-857 (called with is_running false)
start(t) ==
  /\ is_running' = TRUE
  /\ stop_event' = FALSE
  /\ current_day' = 1
  /\ tasks' = [tasks EXCEPT ![t] = [NoTask EXCEPT !.pc = "init"]]

StartAllowed(cfg) == cfg.game_id # 0 /\ cfg.active # {}

\* CCUManagerApp.start_work
StartWork ==
  /\ ~is_running
  /\ StartAllowed(config)
  /\ FreeSlots # {}
  /\ start(CHOOSE t \in FreeSlots : \A o \in FreeSlots : t <= o)
  /\ out' = <<>>
  /\ UNCHANGED <<passes, config, current_phase, current_online, all_bots, bots_in_game,
                 now>>
  /\ NoSave
  /\ NoDetect

\* save_json_config swallows every error: the file is written or left as it was
WriteSession ==
  \E written \in BOOLEAN :
    session' = IF written THEN save_session_state ELSE NoSession

\* variant: stopping empties the pool
stop_deactivating ==
  /\ stop_event' = TRUE
  /\ is_running' = FALSE
  /\ bots_in_game' = [u \in Urls |-> <<>>]
  /\ current_online' = 0
  /\ WriteSession

\* CCUWaveEngine.stop, lines 859-863
stop ==
  /\ stop_event' = TRUE
  /\ is_running' = FALSE
  /\ UNCHANGED <<bots_in_game, current_online>>
  /\ WriteSession

\* CCUManagerApp.stop_work: the optional "reset ASF" to every active instance,
\* then engine.stop()
StopWork ==
  /\ is_running
  /\ \E reset_all \in BOOLEAN :
       out' = IF reset_all
              THEN [i \in 1..Len(get_active_instances(config)) |->
                      Event("reset_asf", get_active_instances(config)[i], "", 0)]
              ELSE <<>>
  /\ UNCHANGED <<passes, config, current_phase, current_day, all_bots, tasks, now>>
  /\ NoDetect
  /\ stop

\* CCUManagerApp._on_config_saved, CCUWaveEngine.reload_config
ReloadConfig ==
  /\ \E cfg \in ConfigSet \ {config} : config' = cfg
  /\ out' = <<>>
  /\ UNCHANGED <<passes, is_running, stop_event, current_phase, current_day,
                 current_online, all_bots, bots_in_game, tasks, now>>
  /\ NoSave
  /\ NoDetect

\* CCUManagerApp._start_monitoring: one round of the monitor thread
MonitorTick(watched) ==
  /\ is_running
  /\ \E gw \in GatewayAnswers : Detect(gw, watched)
  /\ UNCHANGED <<passes, config, is_running, stop_event, current_phase, current_day,
                 current_online, all_bots, bots_in_game, tasks, now>>
  /\ WriteSession

\* the clock
Tick ==
  /\ now + TickSecs <= MaxClock
  /\ now' = now + TickSecs
  /\ out' = <<>>
  /\ UNCHANGED <<passes, config, is_running, stop_event, current_phase, current_day,
                 current_online, all_bots, bots_in_game, tasks>>
  /\ NoSave
  /\ NoDetect

\* The process is killed and started again: CCUWaveEngine.__init__, then
\* CCUManagerApp._check_session_recovery with load_session_state.  What the
\* new process loads is the last snapshot written; everything the old process
\* did after that write is lost, so a kill at any later moment loads the same
\* file as a kill right after the write, which is the step taken here.
Restart ==
  /\ session.exists
  /\ fallen_tracked' = LoadFallen(session)
  /\ restore_attempts' = LoadAttempts(session)
  /\ \E resume \in BOOLEAN :
       IF session.is_running /\ resume
       THEN /\ current_online' = session.current_online
            /\ bots_in_game' = session.bots_in_game
            /\ is_running' = TRUE
            /\ tasks' = [t \in DOMAIN tasks |->
                           IF t = 1 THEN [NoTask EXCEPT !.pc = "init"] ELSE NoTask]
       ELSE /\ current_online' = 0
            /\ bots_in_game' = [u \in Urls |-> <<>>]
            /\ is_running' = FALSE
            /\ tasks' = [t \in DOMAIN tasks |-> NoTask]
  /\ current_day' = 1
  /\ stop_event' = FALSE
  /\ current_phase' = "idle"
  /\ all_bots' = EmptyDict
  /\ out' = <<>>
  /\ restore_sent' = NoHistory
  /\ exhausted_logged' = NoHistory
  /\ seen' = NeverSeen
  /\ NoSave
  /\ UNCHANGED <<passes, config, now>>

-----------------------------------------------------------------------------
(* check_and_restore_fallen_bots step by step.  The monitor thread and the *)
(* cycle thread call it on the same maps and nothing serializes them, so   *)
(* the steps of two passes interleave.  A pass keeps its locals in         *)
(* passes[c]: the instances still to visit, the gateway's answers, and     *)
(* new_fallen, returned, bot, count, last_ts of the code.                  *)

SortedList(S) == SelectSeq(BotOrder, LAMBDA b : b \in S)

SetPass(c, r) == passes' = [passes EXCEPT ![c] = r]

\* the caller enters check_and_restore_fallen_bots (line 641)
PassBegin(c) ==
  /\ passes[c].pc = "idle"
  /\ IF c = "monitor"
     THEN is_running /\ UNCHANGED tasks
     ELSE \E t \in DOMAIN tasks :
            /\ tasks[t].pc = "asc_det"
            /\ SetTask(t, [tasks[t] EXCEPT !.pc = "asc_pass"])
  /\ \E gw \in GatewayAnswers :
       SetPass(c, [IdlePass EXCEPT !.pc = "inst", !.gw = gw,
                                   !.urls = get_active_instances(config)])
  /\ out' = <<>>
  /\ UNCHANGED <<config, is_running, stop_event, current_phase, current_day,
                 current_online, all_bots, bots_in_game, now>>
  /\ NoSave
  /\ NoDetect

\* lines 644-658: the next instance; should_be, fallen and returned are computed
PassInstance(c) ==
  /\ passes[c].pc = "inst"
  /\ passes[c].urls # <<>>
  /\ LET u == Head(passes[c].urls)
         should_be == ToSet(bots_in_game[u])
         online == currently_online(passes[c].gw, u)
     IN  SetPass(c, [passes[c] EXCEPT
                       !.pc = "track", !.u = u, !.urls = Tail(@),
                       !.new_fallen = NewFallen(should_be, online, fallen_tracked[u]),
                       !.returned = SortedList(Returned(should_be, online))])
  /\ out' = <<>>
  /\ UNCHANGED <<config, is_running, stop_event, current_phase, current_day,
                 current_online, all_bots, bots_in_game, tasks, now>>
  /\ NoSave
  /\ NoDetect

\* lines 660-671: the new fallen agents are written to the shared maps
PassTrack(c) ==
  /\ passes[c].pc = "track"
  /\ Commit(TrackNewFallen(Shared, passes[c].u, passes[c].new_fallen))
  /\ SetPass(c, [passes[c] EXCEPT !.pc = "bot"])
  /\ seen' = NeverSeen
  /\ UNCHANGED <<config, is_running, stop_event, current_phase, current_day,
                 current_online, all_bots, bots_in_game, tasks, now>>
  /\ NoSave

\* lines 674-693: the next returned agent; its record is read into count, last_ts
PassBot(c) ==
  /\ passes[c].pc = "bot"
  /\ IF passes[c].returned = <<>>
     THEN /\ SetPass(c, [passes[c] EXCEPT !.pc = "inst"])
          /\ Commit(Shared)
     ELSE LET u == passes[c].u
              bot == Head(passes[c].returned)
              rest == Tail(passes[c].returned)
          IN  IF bot \notin fallen_tracked[u]
              THEN /\ SetPass(c, [passes[c] EXCEPT !.returned = rest])
                   /\ Commit(Shared)
              ELSE IF bot \in passes[c].gw.playing
              THEN /\ SetPass(c, [passes[c] EXCEPT !.returned = rest])
                   /\ Commit([ClearRecord(Shared, u, bot) EXCEPT
                                !.out = Append(@, Event("already_playing", u, bot, 0))])
              ELSE /\ SetPass(c, [passes[c] EXCEPT
                                    !.pc = "act", !.returned = rest, !.bot = bot,
                                    !.count = ReadRecord(Shared, u, bot)[1],
                                    !.last_ts = ReadRecord(Shared, u, bot)[2]])
                   /\ Commit(Shared)
  /\ seen' = NeverSeen
  /\ UNCHANGED <<config, is_running, stop_event, current_phase, current_day,
                 current_online, all_bots, bots_in_game, tasks, now>>
  /\ NoSave

\* lines 692-722: the pass acts on the count it read
PassAct(c) ==
  /\ passes[c].pc = "act"
  /\ Commit(ActOnRecord(Shared, passes[c].u, passes[c].bot, passes[c].count,
                        passes[c].last_ts, passes[c].gw, now))
  /\ SetPass(c, [passes[c] EXCEPT !.pc = "bot"])
  /\ seen' = NeverSeen
  /\ UNCHANGED <<config, is_running, stop_event, current_phase, current_day,
                 current_online, all_bots, bots_in_game, tasks, now>>
  /\ NoSave

\* lines 874-875 against lines 669-671: save_session_state iterates
\* _fallen_tracked and _restore_attempts in comprehensions of its own, outside
\* the try of save_json_config, while the cycle thread is about to add the new
\* fallen agents to them.  A dict that changes size under the iteration raises
\* RuntimeError, which nothing in the monitor loop (lines 1524-1528) catches.
SaveRaces ==
  /\ passes["cycle"].pc = "track"
  /\ passes["cycle"].new_fallen # {}

\* the pass returns: the cycle thread goes on (lines 785-789), the monitor
\* thread saves the session (line 1527)
PassEnd(c) ==
  /\ passes[c].pc = "inst"
  /\ passes[c].urls = <<>>
  /\ out' = <<>>
  /\ UNCHANGED <<config, is_running, stop_event, current_phase, current_day,
                 current_online, all_bots, bots_in_game, now>>
  /\ NoDetect
  /\ IF c = "monitor"
     THEN /\ UNCHANGED tasks
          /\ \/ SetPass(c, IdlePass) /\ WriteSession
             \/ SaveRaces /\ SetPass(c, [IdlePass EXCEPT !.pc = "dead"]) /\ NoSave
     ELSE /\ SetPass(c, IdlePass)
          /\ \E t \in DOMAIN tasks :
               /\ tasks[t].pc = "asc_pass"
               /\ SetTask(t, [tasks[t] EXCEPT !.pc = "asc"])
          /\ NoSave

\* The program over process restarts, one cycle thread at a time
Next ==
  \/ \E t \in DOMAIN tasks : CycleInit(t)
  \/ \E t \in DOMAIN tasks : LoopTop(t)
  \/ \E t \in DOMAIN tasks : AscHead(t)
  \/ \E t \in DOMAIN tasks : AscCmd(t)
  \/ \E t \in DOMAIN tasks : AscDetect(t, FALSE)
  \/ \E t \in DOMAIN tasks : AscEnd(t)
  \/ \E t \in DOMAIN tasks : HoldPeak(t, FALSE)
  \/ \E t \in DOMAIN tasks : HoldPeakEnd(t)
  \/ \E t \in DOMAIN tasks : DescHead(t)
  \/ \E t \in DOMAIN tasks : DescCmd(t)
  \/ \E t \in DOMAIN tasks : DescDetect(t, FALSE)
  \/ \E t \in DOMAIN tasks : DescEnd(t)
  \/ \E t \in DOMAIN tasks : HoldBottom(t, FALSE)
  \/ \E t \in DOMAIN tasks : HoldBottomEnd(t)
  \/ StartWork
  \/ StopWork
  \/ MonitorTick(FALSE)
  \/ Tick
  \/ Restart

Spec == Init /\ [][Next]_vars

\* One process lifetime, with what every detection pass saw on record
NextWatch ==
  \/ \E t \in DOMAIN tasks : CycleInit(t)
  \/ \E t \in DOMAIN tasks : LoopTop(t)
  \/ \E t \in DOMAIN tasks : AscHead(t)
  \/ \E t \in DOMAIN tasks : AscCmd(t)
  \/ \E t \in DOMAIN tasks : AscDetect(t, TRUE)
  \/ \E t \in DOMAIN tasks : AscEnd(t)
  \/ \E t \in DOMAIN tasks : HoldPeak(t, TRUE)
  \/ \E t \in DOMAIN tasks : HoldPeakEnd(t)
  \/ \E t \in DOMAIN tasks : DescHead(t)
  \/ \E t \in DOMAIN tasks : DescCmd(t)
  \/ \E t \in DOMAIN tasks : DescDetect(t, TRUE)
  \/ \E t \in DOMAIN tasks : DescEnd(t)
  \/ \E t \in DOMAIN tasks : HoldBottom(t, TRUE)
  \/ \E t \in DOMAIN tasks : HoldBottomEnd(t)
  \/ StartWork
  \/ StopWork
  \/ MonitorTick(TRUE)
  \/ Tick

SpecWatch == Init /\ [][NextWatch]_vars

\* One process lifetime under a configuration with both holds, with no hold,
\* and with delay enabled but no hold after the peak
PhaseConfigs ==
  {CfgDecay, CfgSolo,
   [CfgSolo EXCEPT !.delay_enabled = TRUE, !.delay_after_peak = 0,
                   !.delay_after_bottom = 1]}

InitPhase == \E cfg \in PhaseConfigs : InitWith(cfg, 1, {1})

SpecPhase == InitPhase /\ [][NextWatch]_vars

-----------------------------------------------------------------------------
(* The ascent under fair scheduling.  The cycle thread is a thread of its
   own (line 856): whenever it has a step to take it takes one.  Nothing
   obliges the user to press stop or the gateway to accept a command. *)

CycleStep ==
  \E t \in DOMAIN tasks :
    \/ CycleInit(t)
    \/ LoopTop(t)
    \/ AscHead(t)
    \/ AscCmd(t)
    \/ AscDetect(t, FALSE)
    \/ AscEnd(t)

NextLive ==
  \/ \E t \in DOMAIN tasks : CycleInit(t)
  \/ \E t \in DOMAIN tasks : LoopTop(t)
  \/ \E t \in DOMAIN tasks : AscHead(t)
  \/ \E t \in DOMAIN tasks : AscCmd(t)
  \/ \E t \in DOMAIN tasks : AscDetect(t, FALSE)
  \/ \E t \in DOMAIN tasks : AscEnd(t)
  \/ StartWork
  \/ StopWork
  \/ Tick

SpecLive == InitWith(CfgJitter, 1, {1}) /\ [][NextLive]_vars /\ WF_vars(CycleStep)

\* The ascent with the configuration saved from the editor while it runs
NextReload == NextLive \/ ReloadConfig

SpecReload == Init /\ [][NextReload]_vars

\* Two cycle threads in their ascent: start_work right after stop_work,
\* before the previous thread has seen the stop
InitRace == InitWith(CfgDecay, 1, Slots)

NextRace ==
  \/ \E t \in DOMAIN tasks : CycleInit(t)
  \/ \E t \in DOMAIN tasks : LoopTop(t)
  \/ \E t \in DOMAIN tasks : AscHead(t)
  \/ \E t \in DOMAIN tasks : AscCmd(t)
  \/ \E t \in DOMAIN tasks : AscDetect(t, FALSE)
  \/ \E t \in DOMAIN tasks : AscEnd(t)
  \/ StartWork
  \/ StopWork

SpecRace == InitRace /\ [][NextRace]_vars

\* The monitor thread and the cycle thread in its ascent, their detection
\* passes interleaved
NextConc ==
  \/ \E t \in DOMAIN tasks : CycleInit(t)
  \/ \E t \in DOMAIN tasks : LoopTop(t)
  \/ \E t \in DOMAIN tasks : AscHead(t)
  \/ \E t \in DOMAIN tasks : AscCmd(t)
  \/ \E c \in Callers : PassBegin(c)
  \/ \E c \in Callers : PassInstance(c)
  \/ \E c \in Callers : PassTrack(c)
  \/ \E c \in Callers : PassBot(c)
  \/ \E c \in Callers : PassAct(c)
  \/ \E c \in Callers : PassEnd(c)
  \/ StartWork
  \/ Tick

InitConc == InitWith(CfgSolo, 1, {1})

SpecConc == InitConc /\ [][NextConc]_vars

-----------------------------------------------------------------------------
(* The schedule on its own: get_current_peak_bottom for a range of         *)
(* configurations and days                                                 *)

SchedTargets == {<<500, 150>>, <<2, 1>>, <<0, 0>>}

SchedDecayLists == {<<>>, <<[peak |-> 400, bottom |-> 100]>>,
                    <<[peak |-> 1, bottom |-> 0], [peak |-> 1], [bottom |-> 0]>>}

SchedConfigs ==
  {[CfgSolo EXCEPT !.peak = pb[1], !.bottom = pb[2], !.base_days = bd,
                   !.gradual_enabled = g, !.additional_days = ad] :
     pb \in SchedTargets, bd \in {0, 1, 7}, g \in BOOLEAN, ad \in SchedDecayLists}

InitSched == \E cfg \in SchedConfigs : \E day \in 1..MaxSchedDay : InitWith(cfg, day, {1})

\* line 755: peak, bottom = self.get_current_peak_bottom()
ComputeTargets ==
  /\ tasks[1].pc = "none"
  /\ LET pb == get_current_peak_bottom(config, current_day)
     IN  tasks' = [tasks EXCEPT ![1] = [NoTask EXCEPT !.pc = "targets",
                                                      !.peak = pb[1], !.bottom = pb[2]]]
  /\ out' = <<>>
  /\ UNCHANGED <<passes, config, is_running, stop_event, current_phase, current_day,
                 current_online, all_bots, bots_in_game, now>>
  /\ NoSave
  /\ NoDetect

NextSched == ComputeTargets

SpecSched == InitSched /\ [][NextSched]_vars

-----------------------------------------------------------------------------
(* calculate_step_interval and apply_randomization on their own: the counts,
   the time budget and the randomize settings are drawn by the initial state *)

CalcCounts == {0, 1, 3, 10}

CalcSeconds == {-5, 0, 1, 100, 86400}

CalcRanges == {<<0, 0>>, <<-15, 15>>, <<-1, 1>>}

CalcConfigs ==
  {[CfgSolo EXCEPT !.rand_enabled = en, !.rand_type = ty,
                   !.rand_min = mm[1], !.rand_max = mm[2]] :
     en \in BOOLEAN, ty \in {"percentage", "absolute"}, mm \in CalcRanges}

InitCalc ==
  \E cfg \in CalcConfigs : \E current \in CalcCounts : \E target \in CalcCounts :
    \E secs \in CalcSeconds :
      InitState(cfg, 1, current,
                [t \in {1} |-> [NoTask EXCEPT !.peak = target, !.seconds = secs]])

CalcFrame ==
  /\ out' = <<>>
  /\ UNCHANGED <<passes, config, is_running, stop_event, current_phase, current_day,
                 current_online, all_bots, bots_in_game, now>>
  /\ NoSave
  /\ NoDetect

\* line 766: interval = self.calculate_step_interval(self.current_online, peak, seconds_to_peak)
ComputeInterval ==
  /\ tasks[1].pc = "none"
  /\ tasks' = [tasks EXCEPT ![1] =
                 [@ EXCEPT !.pc = "interval",
                           !.interval = calculate_step_interval(current_online,
                                                                tasks[1].peak,
                                                                tasks[1].seconds)]]
  /\ CalcFrame

\* lines 770, 813: self.apply_randomization(value)
Randomize ==
  /\ tasks[1].pc = "none"
  /\ \E result \in apply_randomization(config, current_online) :
       tasks' = [tasks EXCEPT ![1] = [@ EXCEPT !.pc = "randomized", !.target = result]]
  /\ CalcFrame

NextCalc == ComputeInterval \/ Randomize

SpecCalc == InitCalc /\ [][NextCalc]_vars

-----------------------------------------------------------------------------
(* Starting the engine under any configuration, the anomalous ones included:
   the game id as the editor stores it (int of the entry, line 1868) and the
   list of active instances *)

StartConfigs ==
  {[CfgSolo EXCEPT !.game_id = g, !.active = a] : g \in {730, 0, -1}, a \in {{"u1"}, {}}}

InitStart == \E cfg \in StartConfigs : InitWith(cfg, 1, {1})

NextStart ==
  \/ \E t \in DOMAIN tasks : CycleInit(t)
  \/ \E t \in DOMAIN tasks : LoopTop(t)
  \/ \E t \in DOMAIN tasks : AscHead(t)
  \/ \E t \in DOMAIN tasks : AscCmd(t)
  \/ \E t \in DOMAIN tasks : AscDetect(t, FALSE)
  \/ StartWork
  \/ StopWork
  \/ MonitorTick(FALSE)
  \/ Tick
  \/ Restart

SpecStart == InitStart /\ [][NextStart]_vars

-----------------------------------------------------------------------------
(* The reset command of the descent with its waits.  tasks[t].wait is the
   length in milliseconds of the time.sleep call the thread is inside (0 when
   it is in none); a sleep, once begun, ends only by itself.  tasks[t].tries
   counts the reset commands sent for the agent at the head of the batch. *)

\* line 789 (and 800, 831, 842): time.sleep(1)
sleep_unit_ms == 1000

\* lines 783, 825: time.sleep(0.5)
settle_ms == 500

\* line 543: time.sleep(10)
reset_backoff_ms == 10000

\* line 548: time.sleep(2)
reset_fallback_ms == 2000

WaitFrame ==
  /\ UNCHANGED <<passes, config, is_running, stop_event, current_phase, current_day,
                 all_bots, now>>
  /\ NoSave
  /\ NoDetect

\* a reset answered ok: lines 821-825, up to the call of time.sleep(0.5)
ResetSucceeded(t, url, bot, n) ==
  /\ bots_in_game' = CommitDeactivate(bots_in_game, url, bot)
  /\ current_online' = Max2(0, current_online - 1)
  /\ out' = <<Event("reset", url, bot, n),
              Event("left", url, bot, Max2(0, current_online - 1))>>
  /\ SetTask(t, [tasks[t] EXCEPT !.pc = "desc_settle", !.wait = settle_ms])

\* variant: one more retry before the fallback
ResetFailedFourth(t, url, bot, n) ==
  /\ UNCHANGED <<bots_in_game, current_online>>
  /\ IF n < 4
     THEN /\ out' = <<Event("reset", url, bot, n)>>
          /\ SetTask(t, [tasks[t] EXCEPT !.pc = "reset_backoff", !.tries = n,
                                         !.wait = reset_backoff_ms])
     ELSE /\ out' = <<Event("reset", url, bot, n), Event("stop", url, bot, 0)>>
          /\ SetTask(t, [tasks[t] EXCEPT !.pc = "reset_fallback", !.tries = n,
                                         !.wait = reset_fallback_ms])

\* a reset answered not ok: the next time.sleep of send_reset_command begins
ResetFailed(t, url, bot, n) ==
  /\ UNCHANGED <<bots_in_game, current_online>>
  /\ IF n < 3
     THEN /\ out' = <<Event("reset", url, bot, n)>>
          /\ SetTask(t, [tasks[t] EXCEPT !.pc = "reset_backoff", !.tries = n,
                                         !.wait = reset_backoff_ms])
     ELSE /\ out' = <<Event("reset", url, bot, n), Event("stop", url, bot, 0)>>
          /\ SetTask(t, [tasks[t] EXCEPT !.pc = "reset_fallback", !.tries = n,
                                         !.wait = reset_fallback_ms])

\* lines 817-820 and 539-541: the stop check, then the first reset command
ResetFirst(t) ==
  /\ tasks[t].pc = "desc_cmd"
  /\ LET url == Head(tasks[t].batch)[1]
         bot == Head(tasks[t].batch)[2]
     IN  IF stop_event
         THEN /\ SetTask(t, [tasks[t] EXCEPT !.batch = <<>>, !.pc = "desc_det"])
              /\ out' = <<>>
              /\ UNCHANGED <<bots_in_game, current_online>>
         ELSE \E ok \in BOOLEAN :
                IF ok THEN ResetSucceeded(t, url, bot, 1) ELSE ResetFailed(t, url, bot, 1)
  /\ WaitFrame

\* lines 543-546: time.sleep(10) returns and the reset command is sent again
BackoffEnd(t) ==
  /\ tasks[t].pc = "reset_backoff"
  /\ LET url == Head(tasks[t].batch)[1]
         bot == Head(tasks[t].batch)[2]
         n   == tasks[t].tries + 1
     IN  \E ok \in BOOLEAN :
           IF ok THEN ResetSucceeded(t, url, bot, n) ELSE ResetFailed(t, url, bot, n)
  /\ WaitFrame

\* lines 548-550 and 825: time.sleep(2) returns, start is sent, the call
\* returns False and time.sleep(0.5) begins
FallbackEnd(t) ==
  /\ tasks[t].pc = "reset_fallback"
  /\ out' = <<Event("start", Head(tasks[t].batch)[1], Head(tasks[t].batch)[2], 0)>>
  /\ SetTask(t, [tasks[t] EXCEPT !.pc = "desc_settle", !.wait = settle_ms])
  /\ UNCHANGED <<bots_in_game, current_online>>
  /\ WaitFrame

\* line 825: time.sleep(0.5) returns; the loop of line 817 goes on
SettleEnd(t) ==
  /\ tasks[t].pc = "desc_settle"
  /\ LET rest == Tail(tasks[t].batch) IN
     SetTask(t, [tasks[t] EXCEPT !.batch = rest, !.tries = 0, !.wait = 0,
                   !.pc = IF rest = <<>> THEN "desc_det" ELSE "desc_cmd"])
  /\ out' = <<>>
  /\ UNCHANGED <<bots_in_game, current_online>>
  /\ WaitFrame

NextWait ==
  \/ \E t \in DOMAIN tasks : CycleInit(t)
  \/ \E t \in DOMAIN tasks : LoopTop(t)
  \/ \E t \in DOMAIN tasks : AscHead(t)
  \/ \E t \in DOMAIN tasks : AscCmd(t)
  \/ \E t \in DOMAIN tasks : AscDetect(t, FALSE)
  \/ \E t \in DOMAIN tasks : AscEnd(t)
  \/ \E t \in DOMAIN tasks : DescHead(t)
  \/ \E t \in DOMAIN tasks : ResetFirst(t)
  \/ \E t \in DOMAIN tasks : BackoffEnd(t)
  \/ \E t \in DOMAIN tasks : FallbackEnd(t)
  \/ \E t \in DOMAIN tasks : SettleEnd(t)
  \/ \E t \in DOMAIN tasks : DescDetect(t, FALSE)
  \/ \E t \in DOMAIN tasks : DescEnd(t)
  \/ StartWork
  \/ StopWork
  \/ Tick

SpecWait == InitConc /\ [][NextWait]_vars

\* The cycle with jitter of -1..1 agents and no holds: under a schedule whose
\* second day has its peak (1) below the floor of the first day (2), and
\* under a peak of 1 with two agents at hand
InitBounds ==
  \E cfg \in {[CfgDecay EXCEPT !.bottom = 2, !.delay_enabled = FALSE,
                               !.rand_enabled = TRUE, !.rand_type = "absolute",
                               !.rand_min = -1, !.rand_max = 1],
               [CfgJitter EXCEPT !.active = Urls, !.peak = 1]} :
    InitWith(cfg, 1, {1})

SpecBounds == InitBounds /\ [][NextWait]_vars

-----------------------------------------------------------------------------
(* A cycle that is started and left alone, with a gateway that lists every
   agent and accepts every activation and every reset at the first try.
   The configurations: a decay schedule of one further day, the same
   schedule with 0 / 0 entered for that day (the editor stores 0 for a field
   it cannot read, lines 1907-1916), and no decay.  The cycle thread is a
   thread of its own (line 856): whenever it has a step to take it takes
   one. *)

DecayConfigs ==
  {CfgDecay,
   [CfgDecay EXCEPT !.additional_days = <<[peak |-> 0, bottom |-> 0]>>],
   CfgSolo}

InitDecay == \E cfg \in DecayConfigs : InitWith(cfg, 1, {1})

NextDecay ==
  \/ \E t \in DOMAIN tasks :
       CycleInit(t) /\ all_bots' = [u \in config.active |-> Roster[u]]
  \/ \E t \in DOMAIN tasks : LoopTop(t)
  \/ \E t \in DOMAIN tasks : AscHead(t)
  \/ \E t \in DOMAIN tasks :
       AscCmd(t) /\ (~stop_event => current_online' = current_online + 1)
  \/ \E t \in DOMAIN tasks : AscDetect(t, FALSE)
  \/ \E t \in DOMAIN tasks : AscEnd(t)
  \/ \E t \in DOMAIN tasks : HoldPeak(t, FALSE)
  \/ \E t \in DOMAIN tasks : HoldPeakEnd(t)
  \/ \E t \in DOMAIN tasks : DescHead(t)
  \/ \E t \in DOMAIN tasks :
       DescCmd(t) /\ (~stop_event => Len(out') = 2 /\ out'[2].t = "left")
  \/ \E t \in DOMAIN tasks : DescDetect(t, FALSE)
  \/ \E t \in DOMAIN tasks : DescEnd(t)
  \/ \E t \in DOMAIN tasks : HoldBottom(t, FALSE)
  \/ \E t \in DOMAIN tasks : HoldBottomEnd(t)
  \/ StartWork

\* a step of the cycle thread: every step but start_work, which needs a
\* free slot
DecayStep == NextDecay /\ \E t \in DOMAIN tasks : tasks[t].pc # "none"

SpecDecay == InitDecay /\ [][NextDecay]_vars /\ WF_vars(DecayStep)

-----------------------------------------------------------------------------
(* get_bots_to_add and get_bots_to_remove on their own, and one micro-step of
   the descent (lines 812-825) from any pool: the rosters, the agents in the
   game and the count asked for are drawn by the initial state.  An endpoint
   lists up to two agents here. *)

MaxCount == 4

RosterLists == UNION {Orderings(S) : S \in SUBSET Bots}

RosterDicts == UNION {[D -> RosterLists] : D \in {{}, {"u1"}, Urls}}

InitPool ==
  \E cfg \in ConfigSet : \E ab \in RosterDicts :
    \E big \in [Urls -> RosterLists] : \E count \in 0..MaxCount :
    \E at \in IF count = 0 THEN {"none", "desc"} ELSE {"none"} :
      /\ config = cfg
      /\ is_running = TRUE
      /\ stop_event = FALSE
      /\ current_phase = "idle"
      /\ current_day = 1
      /\ current_online = SeqSum([i \in 1..Len(get_active_instances(cfg)) |->
                                   Len(big[get_active_instances(cfg)[i]])])
      /\ all_bots = ab
      /\ bots_in_game = big
      /\ fallen_tracked = [u \in Urls |-> {}]
      /\ restore_attempts = [u \in Urls |-> EmptyDict]
      /\ tasks = [t \in {1} |-> [NoTask EXCEPT !.target = count, !.pc = at,
                                                !.bottom = cfg.bottom]]
      /\ session = NoSession
      /\ now = restore_cooldown
      /\ out = <<>>
      /\ restore_sent = NoHistory
      /\ exhausted_logged = NoHistory
      /\ seen = NeverSeen
      /\ passes = [c \in Callers |-> IdlePass]

\* line 773: bots_to_play = self.get_bots_to_add(bots_needed)
SelectToAdd ==
  /\ tasks[1].pc = "none"
  /\ \E bots_to_play \in get_bots_to_add(config, all_bots, bots_in_game, tasks[1].target) :
       SetTask(1, [tasks[1] EXCEPT !.pc = "added", !.batch = bots_to_play])
  /\ CalcFrame

\* line 816: bots_to_reset = self.get_bots_to_remove(bots_needed)
SelectToRemove ==
  /\ tasks[1].pc = "none"
  /\ SetTask(1, [tasks[1] EXCEPT !.pc = "removed",
                   !.batch = get_bots_to_remove(config, bots_in_game, tasks[1].target)])
  /\ CalcFrame

NextPool ==
  \/ SelectToAdd
  \/ SelectToRemove
  \/ DescHead(1)
  \/ DescCmd(1)

SpecPool == InitPool /\ [][NextPool]_vars

-----------------------------------------------------------------------------
(* Properties *)

\* the events of kind t for endpoint u and agent b in the output o of a step
EventCount(o, t, u, b) ==
  Cardinality({i \in 1..Len(o) : o[i].t = t /\ o[i].u = u /\ o[i].b = b})

CommandKinds == {"play", "reset", "stop", "start", "reset_asf"}

CommandCount(o) == Cardinality({i \in 1..Len(o) : o[i].t \in CommandKinds})

HasRecord(u, b) == b \in fallen_tracked[u] /\ b \in DOMAIN restore_attempts[u]

\* C1: over the detection calls of one control flow, an agent whose restore
\* command keeps failing is sent at most _restore_max_attempts restore commands
C1_RecoveryBound ==
  \A u \in Urls : \A b \in Bots : restore_sent[u][b] <= restore_max_attempts

\* an agent that used up its attempts, all of them failed, and was given up
C1_AttemptsUsedUp ==
  \E u \in Urls : \E b \in Bots :
    /\ HasRecord(u, b)
    /\ restore_sent[u][b] = restore_max_attempts
    /\ restore_attempts[u][b][1] > restore_max_attempts

\* C2: from the creation of a fallen record until it is cleared, the
\* "exhausted" warning for the agent is logged at most once
C2_ExhaustedOnce ==
  \A u \in Urls : \A b \in Bots : exhausted_logged[u][b] <= 1

\* C3: an agent is tracked as fallen for an endpoint only while it is in the
\* endpoint's bots_in_game
C3_FallenInPool ==
  \A u \in Urls : fallen_tracked[u] \subseteq ToSet(bots_in_game[u])

\* C4: bots_in_game[endpoint] is a subset of all_bots[endpoint], and
\* current_online lies between 0 and the number of discovered agents
C4_PoolWithinRoster ==
  /\ \A u \in Urls : ToSet(bots_in_game[u]) \subseteq ToSet(Get(all_bots, u, <<>>))
  /\ current_online >= 0
  /\ current_online <= get_total_bots_count(all_bots)

\* C5 as stated: the attempt count of every record is within 0.._restore_max_attempts
C5_CountWithinMax ==
  \A u \in Urls : \A b \in DOMAIN restore_attempts[u] :
    restore_attempts[u][b][1] \in 0..restore_max_attempts

\* C5: the attempt count of every record is within 0.._restore_max_attempts + 1,
\* and it is _restore_max_attempts + 1 only once the "exhausted" warning is out
C5_CountWithinMarker ==
  \A u \in Urls : \A b \in DOMAIN restore_attempts[u] :
    restore_attempts[u][b][1] \in 0..(restore_max_attempts + 1)

\* a record whose count is past the maximum
C5_MarkerReached ==
  \E u \in Urls : \E b \in DOMAIN restore_attempts[u] :
    restore_attempts[u][b][1] = restore_max_attempts + 1

\* C6: an agent appears at most once in bots_in_game[endpoint]
C6_NoDuplicates ==
  \A u \in Urls : Cardinality(ToSet(bots_in_game[u])) = Len(bots_in_game[u])

C8_QuietInCooldown ==
  [][\A u \in Urls : \A b \in Bots :
       (/\ HasRecord(u, b)
        /\ restore_attempts[u][b][1] = restore_max_attempts
        /\ InCooldown(now, restore_attempts[u][b][2]))
       => /\ EventCount(out', "exhausted", u, b) = 0
          /\ b \in DOMAIN restore_attempts'[u]
               => restore_attempts'[u][b] = restore_attempts[u][b]
    ]_vars

\* C8: after the second failed restore no third restore command is sent, inside
\* the cooldown or after it: the next call that sees the agent online and not
\* playing logs "exhausted" once and sets the count to max + 1, and every later
\* call leaves the record alone until the agent is seen playing
C8_NoThirdAttempt ==
  [][\A u \in Urls : \A b \in Bots :
       LET count == restore_attempts[u][b][1]
           last_ts == restore_attempts[u][b][2]
           logged == EventCount(out', "exhausted", u, b)
           cleared == b \notin fallen_tracked'[u] /\ b \notin DOMAIN restore_attempts'[u]
           kept == HasRecord(u, b)' /\ restore_attempts'[u][b] = restore_attempts[u][b]
           marked == HasRecord(u, b)' /\ restore_attempts'[u][b] = <<count + 1, last_ts>>
       IN  IF HasRecord(u, b) /\ count >= restore_max_attempts
           THEN /\ restore_sent'[u][b] <= restore_sent[u][b]
                /\ IF count = restore_max_attempts
                   THEN \/ logged = 0 /\ (kept \/ cleared)
                        \/ logged = 1 /\ marked
                   ELSE logged = 0 /\ (kept \/ cleared)
           ELSE logged = 0
    ]_vars

\* the warning logged, and the count marked, while the cooldown of the second
\* failure still runs
C8_ExhaustedInCooldown ==
  \E u \in Urls : \E b \in Bots :
    /\ HasRecord(u, b)
    /\ restore_attempts[u][b][1] = restore_max_attempts + 1
    /\ InCooldown(now, restore_attempts[u][b][2])
    /\ EventCount(out, "exhausted", u, b) = 1
    /\ restore_sent[u][b] = restore_max_attempts

\* C9: with gradual decay enabled, get_current_peak_bottom is (0, 0) on every
\* day whose index day - base_days - 1 is past the additional_days list; the
\* cycle thread that gets (0, 0) at the top of its loop ends the cycle
\* (is_running false, phase idle) without ascending and without a command
C9_DecayEndsCycle ==
  /\ \A cfg \in SchedConfigs \cup ConfigSet : \A day \in 1..MaxSchedDay :
       (/\ cfg.gradual_enabled
        /\ day > cfg.base_days
        /\ day - cfg.base_days - 1 >= Len(cfg.additional_days))
       => get_current_peak_bottom(cfg, day) = <<0, 0>>
  /\ [][\A t \in DOMAIN tasks :
          (/\ tasks[t].pc = "top"
           /\ tasks'[t] # tasks[t]
           /\ ~Stopped
           /\ config.gradual_enabled
           /\ current_day > config.base_days
           /\ current_day - config.base_days - 1 >= Len(config.additional_days))
          => /\ ~is_running'
             /\ current_phase' = "idle"
             /\ tasks'[t].pc = "none"
             /\ CommandCount(out') = 0
             /\ UNCHANGED <<bots_in_game, current_online, current_day>>
       ]_vars

\* the cycle has ended on the day after the last configured decay day
C9_DecayComplete ==
  /\ out = <<Event("decay_complete", "", "", current_day)>>
  /\ current_day - config.base_days - 1 >= Len(config.additional_days)
  /\ ~is_running
  /\ current_phase = "idle"
  /\ \A t \in DOMAIN tasks : tasks[t].pc = "none"

\* C10: with gradual decay disabled, or on a day <= base_days,
\* get_current_peak_bottom is exactly (peak, bottom) of the configuration
C10_BaseTargets ==
  (/\ tasks[1].pc = "targets"
   /\ ~config.gradual_enabled \/ current_day <= config.base_days)
  => <<tasks[1].peak, tasks[1].bottom>> = <<config.peak, config.bottom>>

\* day 8 with base_days 7 and decay disabled: the targets are still (500, 150)
C10_DayEightUndecayed ==
  /\ tasks[1].pc = "targets"
  /\ ~config.gradual_enabled
  /\ config.base_days = 7
  /\ current_day = 8
  /\ config.peak = 500 /\ config.bottom = 150
  /\ tasks[1].peak = 500 /\ tasks[1].bottom = 150

\* C11: with gradual decay enabled, on a day > base_days whose index
\* day - base_days - 1 is inside additional_days, get_current_peak_bottom is that
\* entry's peak and bottom, each replaced by the base value when the entry omits
\* it; with additional_days = [{peak 400, bottom 100}] and base_days 7, day 9
\* gives (0, 0)
C11_DecayDayTargets ==
  /\ (/\ tasks[1].pc = "targets"
      /\ config.gradual_enabled
      /\ current_day > config.base_days
      /\ current_day - config.base_days - 1 < Len(config.additional_days))
     => LET entry == config.additional_days[current_day - config.base_days] IN
        /\ tasks[1].peak = (IF "peak" \in DOMAIN entry THEN entry.peak ELSE config.peak)
        /\ tasks[1].bottom = (IF "bottom" \in DOMAIN entry THEN entry.bottom
                              ELSE config.bottom)
  /\ (/\ tasks[1].pc = "targets"
      /\ config.gradual_enabled
      /\ config.base_days = 7
      /\ config.additional_days = <<[peak |-> 400, bottom |-> 100]>>
      /\ current_day = 9)
     => tasks[1].peak = 0 /\ tasks[1].bottom = 0

\* day 8 with base_days 7 and additional_days = [{peak 400, bottom 100}]
C11_DayEightDecayed ==
  /\ tasks[1].pc = "targets"
  /\ config.gradual_enabled
  /\ config.base_days = 7
  /\ config.additional_days = <<[peak |-> 400, bottom |-> 100]>>
  /\ config.peak = 500 /\ config.bottom = 150
  /\ current_day = 8
  /\ tasks[1].peak = 400 /\ tasks[1].bottom = 100

\* C12: calculate_step_interval(current, target, seconds) is infinite when
\* current = target, whatever the seconds, and when seconds <= 0; otherwise it
\* is the quotient seconds / |target - current|
C12_StepInterval ==
  tasks[1].pc = "interval" =>
    LET current == current_online
        target  == tasks[1].peak
        secs    == tasks[1].seconds
        result  == tasks[1].interval
        gap     == IF target >= current THEN target - current ELSE current - target
    IN  IF current = target \/ secs <= 0
        THEN result.inf
        ELSE ~result.inf /\ result.den > 0 /\ result.num * gap = secs * result.den

\* calculate_step_interval(0, 10, 100) = 10
C12_TenSecondsPerAgent ==
  /\ tasks[1].pc = "interval"
  /\ current_online = 0 /\ tasks[1].peak = 10 /\ tasks[1].seconds = 100
  /\ ~tasks[1].interval.inf
  /\ tasks[1].interval.num = 10 /\ tasks[1].interval.den = 1

\* C13: apply_randomization(value) = value when randomization is disabled, and
\* when it is enabled in percentage mode with min = max = 0
C13_RandomizationIdentity ==
  (/\ tasks[1].pc = "randomized"
   /\ \/ ~config.rand_enabled
      \/ /\ config.rand_type = "percentage"
         /\ config.rand_min = 0
         /\ config.rand_max = 0)
  => tasks[1].target = current_online

\* value 10 under enabled percentage randomization with min = max = 0
C13_ZeroPercentTen ==
  /\ tasks[1].pc = "randomized"
  /\ config.rand_enabled
  /\ config.rand_type = "percentage"
  /\ config.rand_min = 0 /\ config.rand_max = 0
  /\ current_online = 10
  /\ tasks[1].target = 10

\* C14: a play command of the ascent that fails, and a reset command of the
\* descent that fails after its retries and the fallback restart, leave
\* bots_in_game and current_online as they were; a command step changes them
\* only on success, by appending the agent and adding one on the ascent, by
\* removing the agent and subtracting one on the descent
C14_FailedCommandNoEffect ==
  [][\A t \in DOMAIN tasks :
       (tasks[t].pc \in {"asc_cmd", "desc_cmd"} /\ tasks'[t] # tasks[t]) =>
         LET url == Head(tasks[t].batch)[1]
             bot == Head(tasks[t].batch)[2]
             ascending == tasks[t].pc = "asc_cmd"
             play_failed == /\ ascending
                            /\ EventCount(out', "play", url, bot) = 1
                            /\ EventCount(out', "entered", url, bot) = 0
             reset_failed == /\ ~ascending
                             /\ EventCount(out', "reset", url, bot) = 3
                             /\ EventCount(out', "stop", url, bot) = 1
                             /\ EventCount(out', "start", url, bot) = 1
             succeeded == IF ascending
                          THEN EventCount(out', "entered", url, bot) = 1
                          ELSE /\ EventCount(out', "reset", url, bot) \in 1..3
                               /\ EventCount(out', "stop", url, bot) = 0
         IN  /\ play_failed \/ reset_failed
                => UNCHANGED <<bots_in_game, current_online>>
             /\ ~succeeded => UNCHANGED <<bots_in_game, current_online>>
             /\ succeeded /\ ascending
                => /\ bots_in_game' = [bots_in_game EXCEPT ![url] = Append(@, bot)]
                   /\ current_online' = current_online + 1
             /\ succeeded /\ ~ascending
                => /\ Len(bots_in_game'[url]) = Len(bots_in_game[url]) - 1
                   /\ \A u \in Urls \ {url} : bots_in_game'[u] = bots_in_game[u]
                   /\ current_online' = current_online - 1]_vars

\* a reset command has just failed after three tries and the fallback restart,
\* and its agent is still in bots_in_game
C14_FailedResetKept ==
  \E u \in Urls : \E b \in Bots :
    /\ EventCount(out, "reset", u, b) = 3
    /\ EventCount(out, "stop", u, b) = 1
    /\ b \in ToSet(bots_in_game[u])
    /\ current_online >= 1

\* C15: a detection call whose roster query fails for an endpoint treats the
\* endpoint as having no agent online in that round: bots_in_game and
\* current_online stay as they are, no play command is sent to that endpoint,
\* the engine keeps running and the cycle thread goes on to its next step
C15_QueryFailureTolerated ==
  [][\A u \in Urls :
       (seen'[u].called /\ ~seen'[u].ok) =>
         /\ seen'[u].online = {}
         /\ \A b \in Bots : EventCount(out', "play", u, b) = 0
         /\ UNCHANGED <<bots_in_game, current_online, is_running, stop_event>>
         /\ \A t \in DOMAIN tasks :
              /\ tasks[t].pc # "none" => tasks'[t].pc # "none"
              /\ tasks'[t] # tasks[t] =>
                   tasks'[t].pc = (IF tasks[t].pc = "asc_det" THEN "asc"
                                   ELSE IF tasks[t].pc = "desc_det" THEN "desc"
                                   ELSE tasks[t].pc)
    ]_vars

\* a detection call of the running engine could not query an endpoint whose
\* pool held a tracked fallen agent that the gateway reported online
C15_QueryFailed ==
  \E u \in Urls :
    /\ is_running
    /\ seen[u].called /\ ~seen[u].ok
    /\ seen[u].pool # {}
    /\ seen[u].pool \subseteq fallen_tracked[u]
    /\ \E b \in seen[u].pool : restore_attempts[u][b][1] = 1

\* C16: resuming from a snapshot written while running gives a running engine
\* with the snapshot's day, current_online, bots_in_game per endpoint and
\* fallen/attempt maps
C16_ExactResume ==
  [][(/\ session.exists /\ session.is_running
      /\ session' = NoSession
      /\ is_running'
      /\ tasks'[1].pc = "init" /\ all_bots' = EmptyDict
      /\ current_phase' = "idle" /\ ~stop_event'
      /\ out' = <<>> /\ restore_sent' = NoHistory /\ exhausted_logged' = NoHistory)
     => /\ current_day' = session.current_day
        /\ current_online' = session.current_online
        /\ bots_in_game' = session.bots_in_game
        /\ fallen_tracked' = LoadFallen(session)
        /\ restore_attempts' = LoadAttempts(session)]_vars

\* C17: whichever way the engine is started (start_work or the resume of a
\* session), a cycle thread is launched only when the list of active instances
\* is not empty and the game id is positive
C17_StartPrecondition ==
  [][(\E t \in DOMAIN tasks : tasks'[t].pc = "init" /\ tasks[t].pc # "init")
     => config'.active # {} /\ config'.game_id > 0]_vars

\* C18: once stop has been requested, the cycle thread is never inside a
\* single sleep longer than one time unit (one second)
C18_CancellationBound ==
  \A t \in DOMAIN tasks : stop_event => tasks[t].wait <= sleep_unit_ms

\* C19: engine.stop() sends no command to the gateway and leaves bots_in_game
\* and current_online as they are; it sets the cancellation signal, clears the
\* running flag and writes a snapshot of that state.  (In a stop step the only
\* commands are the "reset ASF" that stop_work sends before it calls stop(),
\* when the user asked for them.)
C19_StopFrame ==
  [][(is_running /\ ~is_running' /\ stop_event')
     => /\ \A i \in 1..Len(out') : out'[i].t = "reset_asf"
        /\ UNCHANGED <<bots_in_game, current_online, current_day, current_phase,
                       all_bots, tasks, fallen_tracked, restore_attempts, config>>
        /\ session'.exists
           => /\ ~session'.is_running
              /\ session'.bots_in_game = bots_in_game
              /\ session'.current_online = current_online
              /\ session'.current_day = current_day]_vars

\* the engine was stopped with agents in the pool: no command was sent, the
\* pool is as it was and the snapshot holds it
C19_StoppedWithPool ==
  /\ stop_event /\ ~is_running
  /\ out = <<>>
  /\ current_online > 0
  /\ \E u \in Urls : bots_in_game[u] # <<>>
  /\ session.exists /\ ~session.is_running
  /\ session.bots_in_game = bots_in_game
  /\ \E t \in DOMAIN tasks : tasks[t].pc # "none"

\* C20: the monitor thread and the cycle thread never work on bots_in_game,
\* _fallen_tracked and _restore_attempts at the same time: a detection pass of
\* one is never in progress during a detection pass of the other, and the
\* cycle thread does not change bots_in_game during a pass of the monitor
C20_SingleWriter ==
  [][/\ ~(passes'["monitor"].pc # "idle" /\ passes'["cycle"].pc # "idle")
     /\ (passes["monitor"].pc # "idle" /\ passes'["monitor"].pc # "idle")
        => bots_in_game' = bots_in_game]_vars

\* C21: however the detection calls of the monitor thread and of the cycle
\* thread interleave, an agent whose restore command keeps failing is sent at
\* most _restore_max_attempts restore commands within one fallen episode
C21_RecoveryBoundInterleaved ==
  ~ \E u \in Urls : \E b \in Bots :
      /\ b \in ToSet(bots_in_game[u])
      /\ restore_sent[u][b] > restore_max_attempts

\* C22: a failure of the periodic save_session_state of the monitor thread,
\* one caused by the maps changing while they are serialized included, does
\* not end the monitor thread
C22_MonitorSurvivesSave == passes["monitor"].pc # "dead"

\* C23: within a run of run_wave_cycle the phase moves only from idle to
\* ascending, from ascending to the hold after the peak or to descending, from
\* that hold to descending, from descending to the hold after the bottom or to
\* ascending, from that hold to ascending, and from anywhere to idle; a hold is
\* entered only when delay is enabled and its duration is not zero; the day
\* does not change between an ascending and the descending that follows it
C23_PhaseOrder ==
  [][/\ current_phase' # current_phase =>
          \/ current_phase' = "idle"
          \/ current_phase = "idle" /\ current_phase' = "ascending"
          \/ /\ current_phase = "ascending"
             /\ current_phase' = "delay_after_peak"
             /\ config.delay_enabled /\ config.delay_after_peak > 0
          \/ /\ current_phase \in {"ascending", "delay_after_peak"}
             /\ current_phase' = "descending"
          \/ /\ current_phase = "descending"
             /\ current_phase' = "delay_after_bottom"
             /\ config.delay_enabled /\ config.delay_after_bottom > 0
          \/ /\ current_phase \in {"descending", "delay_after_bottom"}
             /\ current_phase' = "ascending"
     /\ (/\ current_phase \in {"ascending", "delay_after_peak"}
         /\ current_phase' \in {"ascending", "delay_after_peak", "descending"})
        => current_day' = current_day]_vars

\* the ascending phase of the second day, reached with both holds configured
C23_SecondDayAscending ==
  /\ is_running /\ ~stop_event
  /\ current_phase = "ascending"
  /\ current_day = 2
  /\ config.delay_enabled
  /\ config.delay_after_peak > 0 /\ config.delay_after_bottom > 0

\* C24: an ascent that begins with current_online < peak and no stop
\* requested eventually ends, and when it ends without a stop current_online
\* equals the peak
C24_AscendingExits ==
  (\E t \in DOMAIN tasks :
     tasks[t].pc = "asc" /\ current_online < tasks[t].peak /\ ~Stopped)
  ~> (\/ Stopped
      \/ \E t \in DOMAIN tasks :
           tasks[t].pc = "asc_end" /\ current_online = tasks[t].peak)

\* C25: current_day is at least 1; within a run it changes only by growing by
\* one, and only once the descent of the day (and the hold after the bottom,
\* if any) is over; a stop seen while ascending, holding at the peak or
\* descending leaves it as it is.  A new run begins on day 1.
C25_DayCounter ==
  [][/\ current_day' >= 1
     /\ current_day' # current_day =>
          \/ /\ current_day' = current_day + 1
             /\ \/ /\ current_phase = "descending"
                   /\ ~Stopped
                   /\ \E t \in DOMAIN tasks : tasks[t].pc = "desc_end"
                \/ /\ current_phase = "delay_after_bottom"
                   /\ \E t \in DOMAIN tasks : tasks[t].pc = "hold_bottom"
          \/ ~is_running /\ is_running' /\ current_day' = 1
     /\ (Stopped /\ current_phase \in {"ascending", "delay_after_peak", "descending"})
        => current_day' = current_day]_vars

\* on the second day a stop was requested during the ascent
C25_StoppedOnDayTwo ==
  /\ current_day = 2
  /\ current_phase = "ascending"
  /\ stop_event
  /\ \E t \in DOMAIN tasks : tasks[t].pc \in {"asc", "asc_cmd", "asc_det"}

\* the agents endpoint u lists that are not in its game
Headroom(u) == ToSet(Get(all_bots, u, <<>>)) \ ToSet(bots_in_game[u])

\* how many of the first i pairs of the list r are of endpoint u
TakenFrom(r, u, i) == Cardinality({k \in 1..i : r[k][1] = u})

\* C26: get_bots_to_add(count) returns min(count, total headroom) pairs, all
\* different, each an agent its endpoint lists and that is not in the game
\* there; the pairs come in rounds of at most one per endpoint, so two
\* endpoints that both have headroom left were taken from equally often, or
\* one of them once more; all_bots and bots_in_game stay as they were.
C26_SelectToActivate ==
  [][(tasks[1].pc = "none" /\ tasks'[1].pc = "added") =>
       LET r == tasks'[1].batch
           count == tasks[1].target
           urls == get_active_instances(config)
           total == SeqSum([i \in 1..Len(urls) |-> Cardinality(Headroom(urls[i]))])
       IN  /\ Len(r) = Min2(count, total)
           /\ \A i, k \in 1..Len(r) : i # k => r[i] # r[k]
           /\ \A i \in 1..Len(r) : r[i][1] \in config.active /\ r[i][2] \in Headroom(r[i][1])
           /\ \A i, k \in 1..Len(r) :
                i < k => TakenFrom(r, r[i][1], i) <= TakenFrom(r, r[k][1], k)
           /\ \A u, v \in config.active :
                (/\ TakenFrom(r, u, Len(r)) < Cardinality(Headroom(u))
                 /\ TakenFrom(r, v, Len(r)) < Cardinality(Headroom(v)))
                => TakenFrom(r, u, Len(r)) - TakenFrom(r, v, Len(r)) \in {-1, 0, 1}
           /\ all_bots' = all_bots
           /\ bots_in_game' = bots_in_game]_vars

\* three agents were asked for where both endpoints had two to give: two
\* came from the first and one from the second
C26_ThreeOfFour ==
  /\ tasks[1].pc = "added"
  /\ tasks[1].target = 3
  /\ Len(tasks[1].batch) = 3
  /\ Cardinality(Headroom("u1")) = 2
  /\ Cardinality(Headroom("u2")) = 2
  /\ config.active = Urls

\* C27: a reset of the descent is issued for the agent that is last in
\* bots_in_game of its endpoint (the one activated most recently of those
\* still in the game).
C27_LastInFirstOut ==
  [][(/\ tasks[1].pc = "desc_cmd"
      /\ ~stop_event
      /\ tasks'[1] # tasks[1])
     => LET url == Head(tasks[1].batch)[1]
            bot == Head(tasks[1].batch)[2]
        IN  /\ bots_in_game[url] # <<>>
            /\ bot = bots_in_game[url][Len(bots_in_game[url])]]_vars

\* what a step's output says about agent b of endpoint u
AgentEvents(o, u, b) == SelectSeq(o, LAMBDA e : e.u = u /\ e.b = b)

\* C28 as stated: inside the cooldown of a failed restore, with the count
\* below the maximum, no restore command is sent and a detection call leaves
\* the record as it is and logs nothing for the agent
C28_QuietWindow ==
  [][\A u \in Urls : \A b \in Bots :
       (/\ HasRecord(u, b)
        /\ restore_attempts[u][b][1] \in 1..(restore_max_attempts - 1)
        /\ now - restore_attempts[u][b][2] < restore_cooldown)
       => /\ restore_sent'[u][b] <= restore_sent[u][b]
          /\ seen'[u].called
             => /\ HasRecord(u, b)'
                /\ restore_attempts'[u][b] = restore_attempts[u][b]
                /\ AgentEvents(out', u, b) = <<>>
    ]_vars

\* C28: inside the cooldown of a failed restore, with the count below the
\* maximum, no restore command is sent; a detection call leaves the record as
\* it is and logs nothing for the agent, unless it sees the agent online and
\* already playing: then it clears the record and logs that once
C28_CooldownGuard ==
  [][\A u \in Urls : \A b \in Bots :
       (/\ HasRecord(u, b)
        /\ restore_attempts[u][b][1] \in 1..(restore_max_attempts - 1)
        /\ now - restore_attempts[u][b][2] < restore_cooldown)
       => /\ restore_sent'[u][b] <= restore_sent[u][b]
          /\ seen'[u].called
             => \/ /\ HasRecord(u, b)'
                   /\ restore_attempts'[u][b] = restore_attempts[u][b]
                   /\ AgentEvents(out', u, b) = <<>>
                \/ /\ b \notin fallen_tracked'[u]
                   /\ b \notin DOMAIN restore_attempts'[u]
                   /\ AgentEvents(out', u, b) = <<Event("already_playing", u, b, 0)>>
    ]_vars

\* a detection call saw the agent online inside the cooldown of its first
\* failed restore and passed it by
C28_SkippedInWindow ==
  \E u \in Urls : \E b \in Bots :
    /\ seen[u].called
    /\ b \in seen[u].online
    /\ HasRecord(u, b)
    /\ restore_attempts[u][b][1] = 1
    /\ now - restore_attempts[u][b][2] < restore_cooldown
    /\ AgentEvents(out, u, b) = <<>>

\* C29: a detection call that sees a tracked agent online and already playing
\* removes its fallen record and its attempt record, whatever the count, logs
\* that once and sends it no command; an agent seen online that is not tracked
\* gets no command and no log, and nothing kept about it changes.
C29_ReturnedAgents ==
  [][\A u \in Urls : \A b \in Bots :
       (seen'[u].called /\ b \in seen'[u].online) =>
         IF b \in fallen_tracked[u]
         THEN b \in seen'[u].playing =>
                /\ b \notin fallen_tracked'[u]
                /\ b \notin DOMAIN restore_attempts'[u]
                /\ AgentEvents(out', u, b) = <<Event("already_playing", u, b, 0)>>
         ELSE /\ b \notin fallen_tracked'[u]
              /\ (b \in DOMAIN restore_attempts'[u]) = (b \in DOMAIN restore_attempts[u])
              /\ b \in DOMAIN restore_attempts[u]
                   => restore_attempts'[u][b] = restore_attempts[u][b]
              /\ restore_sent'[u][b] = restore_sent[u][b]
              /\ AgentEvents(out', u, b) = <<>>
    ]_vars

\* a detection call saw an agent playing and dropped what was kept about it,
\* while the other endpoint's agent, online and never tracked, was passed by
C29_ClearedWhilePlaying ==
  \E u \in Urls : \E b \in Bots :
    /\ seen[u].called
    /\ b \in seen[u].playing
    /\ b \notin fallen_tracked[u]
    /\ b \notin DOMAIN restore_attempts[u]
    /\ out = <<Event("already_playing", u, b, 0)>>
    /\ \E v \in Urls \ {u} : seen[v].called /\ seen[v].online # {}

\* C30: once the attempt count of a fallen agent has reached the maximum, no
\* restore command is sent to it any more and its record stays, the count at
\* or above the maximum, until a detection call sees the agent online and
\* already playing and clears it.
C30_ExhaustedTerminal ==
  [][\A u \in Urls : \A b \in Bots :
       (HasRecord(u, b) /\ restore_attempts[u][b][1] >= restore_max_attempts) =>
         /\ restore_sent'[u][b] <= restore_sent[u][b]
         /\ \/ /\ HasRecord(u, b)'
               /\ restore_attempts'[u][b][1] >= restore_attempts[u][b][1]
               /\ restore_attempts'[u][b][2] = restore_attempts[u][b][2]
            \/ /\ b \notin fallen_tracked'[u]
               /\ b \notin DOMAIN restore_attempts'[u]
               /\ seen'[u].called
               /\ b \in seen'[u].playing
               /\ EventCount(out', "already_playing", u, b) = 1
    ]_vars

\* an agent given up earlier was seen online and not playing after its
\* cooldown had passed, and was left alone
C30_GivenUpLeftAlone ==
  \E u \in Urls : \E b \in Bots :
    /\ seen[u].called
    /\ b \in seen[u].online \ seen[u].playing
    /\ HasRecord(u, b)
    /\ restore_attempts[u][b][1] = restore_max_attempts + 1
    /\ now - restore_attempts[u][b][2] >= restore_cooldown
    /\ restore_sent[u][b] = restore_max_attempts
    /\ AgentEvents(out, u, b) = <<>>

\* C31: a micro-step of the ascent is one that the configuration of the
\* cycle's start allows: its jitter settings and its active endpoints decide
\* the agents selected, whatever was saved from the editor since.  The
\* configuration of the start is known by the delay settings the cycle
\* captured when it began (lines 739-741).
C31_ReloadNextCycle ==
  [][\A t \in DOMAIN tasks :
       (/\ tasks[t].pc = "asc"
        /\ tasks'[t].pc \in {"asc_cmd", "asc_det"})
       => \E cfg \in ConfigSet :
            /\ cfg.delay_enabled = tasks[t].delay_enabled
            /\ cfg.delay_after_peak = tasks[t].delay_after_peak
            /\ cfg.delay_after_bottom = tasks[t].delay_after_bottom
            /\ \E raw \in apply_randomization(cfg, current_online + 1) :
                 LET bots_needed == Min2(tasks[t].peak, raw) - current_online IN
                 tasks'[t].batch \in
                   (IF bots_needed > 0
                    THEN get_bots_to_add(cfg, all_bots, bots_in_game, bots_needed)
                    ELSE {<<>>})
    ]_vars

\* C32: at most one thread is inside run_wave_cycle
C32_SingleCycleTask ==
  Cardinality({t \in DOMAIN tasks : tasks[t].pc # "none"}) <= 1

\* the events of kind t in the output o of a step
EventsOf(o, t) == SelectSeq(o, LAMBDA e : e.t = t)

\* C33: send_reset_command sends "reset" at most three times, the second and
\* the third each after a backoff of 10 s; a reset that succeeds is the last
\* thing it sends; "stop" and, 2 s later, "start" are sent only after the
\* third reset failed, and the call then reports failure: the agent stays in
\* bots_in_game and current_online is not changed.
C33_ResetTries ==
  [][\A t \in DOMAIN tasks :
       (/\ tasks[t].pc \in {"desc_cmd", "reset_backoff", "reset_fallback", "desc_settle"}
        /\ tasks'[t] # tasks[t])
       => LET resets == EventsOf(out', "reset")
              stops == EventsOf(out', "stop")
              starts == EventsOf(out', "start")
              left == EventsOf(out', "left")
          IN  /\ Len(resets) <= 1
              /\ \A i \in 1..Len(resets) :
                   /\ resets[i].n \in 1..3
                   /\ resets[i].n = 1 <=> tasks[t].pc = "desc_cmd"
                   /\ resets[i].n > 1 =>
                        /\ tasks[t].pc = "reset_backoff"
                        /\ tasks[t].wait = reset_backoff_ms
                        /\ tasks[t].tries = resets[i].n - 1
              /\ left # <<>> =>
                   /\ resets # <<>>
                   /\ stops = <<>> /\ starts = <<>>
                   /\ tasks'[t].pc = "desc_settle"
              /\ stops # <<>> <=> (resets # <<>> /\ resets[1].n = 3 /\ left = <<>>)
              /\ stops # <<>> =>
                   /\ tasks'[t].pc = "reset_fallback"
                   /\ tasks'[t].wait = reset_fallback_ms
              /\ starts # <<>> <=> tasks[t].pc = "reset_fallback"
              /\ left = <<>> => UNCHANGED <<bots_in_game, current_online>>
              /\ tasks[t].pc = "desc_settle" => out' = <<>>
    ]_vars

\* the fallback has just been sent after three failed resets, and the agent
\* is still in the game
C33_FallbackAfterThree ==
  \E t \in DOMAIN tasks :
    /\ tasks[t].pc = "desc_settle"
    /\ tasks[t].tries = 3
    /\ EventsOf(out, "start") # <<>>
    /\ Head(tasks[t].batch)[2] \in ToSet(bots_in_game[Head(tasks[t].batch)[1]])

\* current_online is the number of agents in bots_in_game, all endpoints
\* taken together
OnlineMatchesPool ==
  current_online = SeqSum([i \in 1..Len(InstanceOrder) |-> Len(bots_in_game[InstanceOrder[i]])])

\* C34: a step of the cycle that finds current_online equal to the number of
\* agents in bots_in_game leaves it equal
C34_OnlineIsPoolSize == [][OnlineMatchesPool => OnlineMatchesPool']_vars

\* C35: get_bots_to_remove(count) returns min(count, number of agents in the
\* game on the active endpoints) pairs, each an agent in bots_in_game of its
\* endpoint, and no pair twice
C35_SelectToDeactivate ==
  tasks[1].pc = "removed" =>
    LET r == tasks[1].batch
        urls == get_active_instances(config)
        total == SeqSum([i \in 1..Len(urls) |-> Len(bots_in_game[urls[i]])])
    IN  /\ Len(r) = Min2(tasks[1].target, total)
        /\ \A i \in 1..Len(r) : r[i][1] \in config.active /\ r[i][2] \in ToSet(bots_in_game[r[i][1]])
        /\ \A i, k \in 1..Len(r) : i # k => r[i] # r[k]

\* C36 as stated: in the ascending phase current_online is at most the peak
\* of the day, in the descending phase at least its floor
C36_WithinTargets ==
  \A t \in DOMAIN tasks :
    /\ (current_phase = "ascending" /\ tasks[t].pc # "none")
       => current_online <= tasks[t].peak
    /\ (current_phase = "descending" /\ tasks[t].pc # "none")
       => current_online >= tasks[t].bottom

\* C36: a step of the ascending phase that changes current_online adds one
\* and does not pass the peak of the day; a step of the descending phase that
\* changes it takes one off and does not pass the floor of the day.  So the
\* count is above the peak in the ascending phase only if the day began
\* above it, and then the phase activates nobody.
C36_StepsWithinTargets ==
  [][\A t \in DOMAIN tasks :
       /\ (/\ current_phase = "ascending"
           /\ tasks[t].pc # "none"
           /\ current_online' # current_online)
          => current_online' = current_online + 1 /\ current_online' <= tasks[t].peak
       /\ (/\ current_phase = "descending"
           /\ tasks[t].pc # "none"
           /\ current_online' # current_online)
          => current_online' = current_online - 1 /\ current_online' >= tasks[t].bottom
    ]_vars

\* with jitter on, the last agent has just been deactivated and the floor of
\* the day is reached
C36_FloorReachedInOneStep ==
  \E t \in DOMAIN tasks :
    /\ config.rand_enabled
    /\ current_phase = "descending"
    /\ tasks[t].pc = "desc_settle"
    /\ current_online = tasks[t].bottom
    /\ bots_in_game = [u \in Urls |-> <<>>]
    /\ EventsOf(out, "left") # <<>>

\* C37: once stop() has set the stop signal, no step of the cycle thread
\* sends a command to a gateway (a command is one step here, so none is in
\* flight when the signal is set)
C37_QuietAfterStop ==
  [][(stop_event /\ tasks' # tasks) => CommandCount(out') = 0]_vars

\* C38: a process that starts on a stored snapshot and does not resume it
\* (the snapshot says not running, or the user declines) has nobody tracked
\* as fallen and no attempt record
C38_UnresumedSnapshotInert ==
  [][(/\ session.exists
      /\ session' = NoSession
      /\ ~is_running' /\ ~stop_event'
      /\ tasks' = [t \in DOMAIN tasks |-> NoTask]
      /\ all_bots' = EmptyDict
      /\ current_phase' = "idle"
      /\ out' = <<>> /\ restore_sent' = NoHistory /\ exhausted_logged' = NoHistory)
     => /\ \A u \in DOMAIN fallen_tracked' : fallen_tracked'[u] = {}
        /\ \A u \in DOMAIN restore_attempts' : DOMAIN restore_attempts'[u] = {}]_vars

\* the schedule of the day is 0 / 0, read from the configuration's fields
TargetsZeroOn(cfg, day) ==
  IF ~cfg.gradual_enabled \/ day <= cfg.base_days
  THEN cfg.peak = 0 /\ cfg.bottom = 0
  ELSE IF day - cfg.base_days <= Len(cfg.additional_days)
       THEN LET d == cfg.additional_days[day - cfg.base_days]
            IN  d.peak = 0 /\ d.bottom = 0
       ELSE TRUE

\* the cycle has just completed naturally on the given day
CompletedOn(day) ==
  /\ ~is_running
  /\ current_phase = "idle"
  /\ \A t \in DOMAIN tasks : tasks[t].pc = "none"
  /\ out = <<Event("decay_complete", "", "", day)>>
  /\ current_day = day

\* a cycle under no decay with targets not both zero never completes naturally
NoDecayNoCompletion ==
  (~config.gradual_enabled /\ ~(config.peak = 0 /\ config.bottom = 0))
  => /\ EventsOf(out, "decay_complete") = <<>>
     /\ \A t \in DOMAIN tasks : tasks[t].pc # "none" => is_running

\* C39 as stated: with gradual decay enabled, no jitter, peaks within the
\* discovered agents and every command succeeding, a started cycle that is
\* never stopped eventually completes naturally on day
\* base_days + |additional_days| + 1; with decay disabled and targets not
\* both zero it never completes naturally
C39_CompletesAfterLastDay ==
  /\ (is_running /\ config.gradual_enabled)
       ~> CompletedOn(config.base_days + Len(config.additional_days) + 1)
  /\ []NoDecayNoCompletion

\* C39: under the same conditions a started cycle eventually completes
\* naturally, on the first day whose targets are both zero: no later than
\* day base_days + |additional_days| + 1, and on that day exactly when no
\* configured day has both targets zero; with decay disabled and targets
\* not both zero it never completes naturally
C39_NaturalTermination ==
  /\ (is_running /\ config.gradual_enabled)
       ~> \E day \in 1..(config.base_days + Len(config.additional_days) + 1) :
            /\ CompletedOn(day)
            /\ TargetsZeroOn(config, day)
            /\ \A e \in 1..(day - 1) : ~TargetsZeroOn(config, e)
  /\ []NoDecayNoCompletion

\* the schedule without a 0 / 0 day has run through both of its days, every
\* agent was activated and deactivated again, and the cycle has completed
C39_CompletedOnDayThree ==
  /\ config = CfgDecay
  /\ CompletedOn(config.base_days + Len(config.additional_days) + 1)
  /\ all_bots = [u \in config.active |-> Roster[u]]
  /\ bots_in_game = [u \in Urls |-> <<>>]
  /\ current_online = 0

====
